---- MODULE Spec2Model ----
(***************************************************************************)
(* Board representation, move generation, make/unmake and the perft driver *)
(* of the chess engine (src/src/board.rs, bitboard.rs, piece.rs, move.rs,  *)
(* utils.rs).  A BitBoard (u64) is the set of its set bits, a Square is    *)
(* its index 0..63 (A1 = 0, H8 = 63).                                      *)
(***************************************************************************)
EXTENDS Integers, Sequences, FiniteSets, TLC

(* ------------------------------------------------------------------ *)
(* Squares, files, ranks                                               *)
(* ------------------------------------------------------------------ *)
Squares == 0..63

file(sq) == sq % 8

rank(sq) == sq \div 8

SquareNew(f, r) == r * 8 + f

FileBitboard(f) == {SquareNew(f, r) : r \in 0..7}

RankBitboard(r) == {SquareNew(f, r) : f \in 0..7}

(* ------------------------------------------------------------------ *)
(* piece.rs: colours, piece kinds (their bitboard slots), sliders      *)
(* ------------------------------------------------------------------ *)
White == 0
Black == 1
King == 2
Pawn == 3
Bishop == 4
Knight == 5
Rook == 6
Queen == 7

ALL == <<King, Bishop, Knight, Pawn, Rook, Queen>>

SLIDING == <<Bishop, Rook, Queen>>

PROMOTIONS == <<Bishop, Rook, Knight, Queen>>

opponent(c) == 1 - c

promotion_rank(c) == IF c = Black THEN 0 ELSE 7

(* a Slider is <<left, right>>: the bits shifted left, then right *)
RookSliders == << <<0, 8>>, <<8, 0>>, <<0, 1>>, <<1, 0>> >>

BishopSliders == << <<0, 9>>, <<0, 7>>, <<9, 0>>, <<7, 0>> >>

QueenSliders == RookSliders \o BishopSliders

sliders(p) == IF p = Rook THEN RookSliders
              ELSE IF p = Bishop THEN BishopSliders
              ELSE QueenSliders

OrthogonalSliders == { <<0, 8>>, <<8, 0>>, <<0, 1>>, <<1, 0>> }

(* ------------------------------------------------------------------ *)
(* bitboard.rs                                                         *)
(* ------------------------------------------------------------------ *)
EMPTY == {}

CORNERS == RankBitboard(0) \cup RankBitboard(7) \cup FileBitboard(0) \cup FileBitboard(7)

shl(bbd, bits) == {s + bits : s \in {x \in bbd : x + bits <= 63}}

shr(bbd, bits) == {s - bits : s \in {x \in bbd : x - bits >= 0}}

safe_shl(bbd, bits) == shl(bbd, bits)

safe_shr(bbd, bits) == shr(bbd, bits)

(* forward without the colour: every pawn advances towards rank 8 *)
forward_colourless(bbd, c) == shl(bbd, 8)

forward(bbd, c) == IF c = White THEN shl(bbd, 8) ELSE shr(bbd, 8)

backward(bbd, c) == IF c = White THEN shr(bbd, 8) ELSE shl(bbd, 8)

(* u64::trailing_zeros: 64 for the empty board *)
trailing_zeros(bbd) == IF bbd = {} THEN 64 ELSE CHOOSE s \in bbd : \A t \in bbd : s <= t

(* the set bits taken highest first *)
active_squares_highest_first(bbd) == SelectSeq([i \in 1..64 |-> 64 - i], LAMBDA s : s \in bbd)

(* BitBoard::active_squares / Board::isolate_pieces: lowest bit first *)
active_squares(bbd) == SelectSeq([i \in 1..64 |-> i - 1], LAMBDA s : s \in bbd)

(* ------------------------------------------------------------------ *)
(* Attack tables (utils.rs generators of the hard-coded tables)        *)
(* ------------------------------------------------------------------ *)
KING_MOVES == [sq \in Squares |->
    {t \in Squares : /\ t # sq
                     /\ file(t) - file(sq) \in {-1, 0, 1}
                     /\ rank(t) - rank(sq) \in {-1, 0, 1}}]

KnightDeltas == { <<2, 1>>, <<2, -1>>, <<-2, 1>>, <<-2, -1>>,
                  <<-1, 2>>, <<1, 2>>, <<-1, -2>>, <<1, -2>> }

KNIGHT_MOVES == [sq \in Squares |->
    {t \in Squares : <<file(t) - file(sq), rank(t) - rank(sq)>> \in KnightDeltas}]

BISHOP_MOVES == [sq \in Squares |->
    {t \in Squares : /\ t # sq
                     /\ \/ file(t) - file(sq) = rank(t) - rank(sq)
                        \/ file(t) - file(sq) = rank(sq) - rank(t)}]

possible_moves(p, sq) ==
    IF p = Bishop THEN BISHOP_MOVES[sq]
    ELSE IF p = Knight THEN KNIGHT_MOVES[sq]
    ELSE IF p = Rook THEN FileBitboard(file(sq)) \cup RankBitboard(rank(sq))
    ELSE IF p = Queen THEN BISHOP_MOVES[sq] \cup FileBitboard(file(sq)) \cup RankBitboard(rank(sq))
    ELSE IF p = King THEN KING_MOVES[sq]
    ELSE EMPTY

(* ------------------------------------------------------------------ *)
(* move.rs                                                             *)
(* ------------------------------------------------------------------ *)
Short == 0
Long == 1

(* MoveFlag: a tag and its payload (0 when the variant has none) *)
FlagNone == [tag |-> "None", arg |-> 0]

FlagCastle(method) == [tag |-> "Castle", arg |-> method]

FlagPromotion(p) == [tag |-> "Promotion", arg |-> p]

FlagCapture(p) == [tag |-> "Capture", arg |-> p]

FlagEnPassant(sq) == [tag |-> "EnPassant", arg |-> sq]

Move(s, t, f) == [starting_square |-> s, target_square |-> t, flag |-> f]

(* ------------------------------------------------------------------ *)
(* board.rs: BitBoards                                                 *)
(* ------------------------------------------------------------------ *)
(* Option<(Color, Piece)>: None is the empty tuple *)
None == << >>

all_pieces(b, c) == b.bitboards[c]

all_pieces_any(b) == b.bitboards[White] \cup b.bitboards[Black]

ad_bitboard(c) == IF c = White THEN 8 ELSE 9

get_piece_set(b, p, c) == b.bitboards[c] \cap b.bitboards[p]

get_piece_set_any(b, p) == b.bitboards[p]

sliding_pieces(b, c) ==
    get_piece_set(b, Bishop, c) \cup get_piece_set(b, Queen, c) \cup get_piece_set(b, Rook, c)

pieces(b, c) == all_pieces(b, c)

blockers(b) == all_pieces_any(b)

remove_piece(bbs, p, c, sq) ==
    [bbs EXCEPT ![p] = @ \ {sq}, ![c] = @ \ {sq}]

(* BitBoards::move *)
bitboards_move(bbs, c, p, mv) ==
    [bbs EXCEPT ![c] = (@ \ {mv.starting_square}) \cup {mv.target_square},
                ![p] = (@ \ {mv.starting_square}) \cup {mv.target_square}]

bitboards_undo_move(bbs, c, p, mv) ==
    [bbs EXCEPT ![c] = (@ \ {mv.target_square}) \cup {mv.starting_square},
                ![p] = (@ \ {mv.target_square}) \cup {mv.starting_square}]

insert_piece(bbs, sq, p, c) ==
    [bbs EXCEPT ![c] = @ \cup {sq}, ![p] = @ \cup {sq}]

(* ------------------------------------------------------------------ *)
(* board.rs: Board                                                     *)
(* ------------------------------------------------------------------ *)
BoardNew ==
    [bitboards |-> [i \in 0..9 |-> EMPTY],
     squares |-> [s \in Squares |-> None],
     turn |-> White,
     castling_availability |-> << <<FALSE, FALSE>>, <<FALSE, FALSE>> >>,
     en_passant |-> EMPTY,
     en_passant_prev |-> EMPTY,
     halfmove_count |-> 0,
     move_count |-> 1,
     move_filters |-> <<EMPTY, EMPTY>>]

(* <<king home, rook home, squares between>> per colour and method *)
CASTLING_SQUARES ==
    << << <<4, 7, {5, 6}>>, <<4, 0, {1, 2, 3}>> >>,
       << <<60, 63, {61, 62}>>, <<60, 56, {57, 58, 59}>> >> >>

(* castling_squares with the two files exchanged: the king one file, the rook two *)
castling_squares_exchanged(c, method) ==
    LET king_file == IF method = Short THEN 5 ELSE 3
        rook_file == IF method = Short THEN 6 ELSE 2
        r == IF c = White THEN 0 ELSE 7
    IN  <<SquareNew(king_file, r), SquareNew(rook_file, r)>>

castling_squares(c, method) ==
    LET king_file == IF method = Short THEN 6 ELSE 2
        rook_file == IF method = Short THEN 5 ELSE 3
        r == IF c = White THEN 0 ELSE 7
    IN  <<SquareNew(king_file, r), SquareNew(rook_file, r)>>

is_double_move(c, mv) ==
    forward(forward({mv.starting_square}, c), c) \cap {mv.target_square} # {}

do_simple_move(b, p, mv) ==
    [b EXCEPT !.bitboards = bitboards_move(@, b.turn, p, mv),
              !.squares = [@ EXCEPT ![mv.target_square] = <<b.turn, p>>,
                                    ![mv.starting_square] = None]]

undo_simple_move(b, p, mv) ==
    [b EXCEPT !.bitboards = bitboards_undo_move(@, b.turn, p, mv),
              !.squares = [@ EXCEPT ![mv.starting_square] = <<b.turn, p>>,
                                    ![mv.target_square] = None]]

(* the mailbox first, then the kind boards in the order of Piece::ALL; 0 is None *)
get_piece_type(b, sq) ==
    IF b.squares[sq] # None THEN b.squares[sq][2]
    ELSE LET hit == {i \in 1..6 : sq \in b.bitboards[ALL[i]]}
         IN  IF hit = {} THEN 0
             ELSE ALL[CHOOSE i \in hit : \A j \in hit : i <= j]

(* Square::index panics outside 0..63 *)
SquareIndexPanics(i) == i > 63

(* the pawn an en-passant capture removes: one rank behind the target *)
(* the square one rank ahead of the target instead of behind it *)
other_pawn_ahead(b, mv, c) == trailing_zeros(forward({mv.target_square}, c))

other_pawn(b, mv, c) == trailing_zeros(backward({mv.target_square}, c))

undo_move_panics(b, mv) ==
    \/ get_piece_type(b, mv.target_square) = 0
    \/ /\ mv.flag.tag = "EnPassant"
       /\ \/ SquareIndexPanics(other_pawn(b, mv, opponent(b.turn)))
          \/ mv.flag.arg # other_pawn(b, mv, opponent(b.turn))

(* the match on mv.flag of undo_move, with self.turn already flipped back *)
undo_move_flag(b, mv) ==
    IF mv.flag.tag = "EnPassant" THEN
        LET op == other_pawn(b, mv, b.turn)
            b1 == [b EXCEPT !.bitboards = insert_piece(@, op, Pawn, opponent(b.turn)),
                            !.squares = [@ EXCEPT ![op] = <<opponent(b.turn), Pawn>>]]
        IN  undo_simple_move(b1, Pawn, mv)
    ELSE IF mv.flag.tag = "Capture" THEN
        LET b1 == undo_simple_move(b, get_piece_type(b, mv.target_square), mv)
        IN  [b1 EXCEPT !.bitboards = insert_piece(@, mv.target_square, mv.flag.arg, opponent(b.turn)),
                       !.squares = [@ EXCEPT ![mv.target_square] = <<opponent(b.turn), mv.flag.arg>>]]
    ELSE IF mv.flag.tag = "Promotion" THEN
        [b EXCEPT !.bitboards = [@ EXCEPT ![mv.flag.arg] = @ \ {mv.target_square},
                                          ![Pawn] = b.bitboards[Pawn] \cup {mv.starting_square}],
                  !.squares = [@ EXCEPT ![mv.starting_square] = <<b.turn, Pawn>>]]
    ELSE IF mv.flag.tag = "Castle" THEN
        LET tg == castling_squares(b.turn, mv.flag.arg)
            cs == CASTLING_SQUARES[b.turn + 1][mv.flag.arg + 1]
            b1 == undo_simple_move(b, King, Move(cs[1], tg[1], mv.flag))
        IN  undo_simple_move(b1, Rook, Move(cs[2], tg[2], mv.flag))
    ELSE IF mv.flag.tag \in {"Untargeted", "NullMove"} THEN b
    ELSE undo_simple_move(b, get_piece_type(b, mv.target_square), mv)

saturating_sub(a, n) == IF a >= n THEN a - n ELSE 0

undo_move(b, mv) ==
    LET b0 == [b EXCEPT !.turn = opponent(b.turn)]
        b1 == undo_move_flag(b0, mv)
    IN  [b1 EXCEPT !.move_filters = <<EMPTY, EMPTY>>,
                   !.en_passant = b1.en_passant_prev,
                   !.en_passant_prev = EMPTY,
                   !.move_count = saturating_sub(@, 1)]

do_move_panics(b, mv) ==
    \/ get_piece_type(b, mv.starting_square) = 0
    \/ /\ mv.flag.tag = "EnPassant"
       /\ \/ get_piece_type(b, mv.starting_square) # Pawn
          \/ SquareIndexPanics(other_pawn(b, mv, b.turn))
          \/ other_pawn(b, mv, b.turn) # mv.flag.arg

(* the bookkeeping without the clearing: a target stays until the next double push *)
do_move_en_passant_sticky(b, piece, mv) ==
    IF piece = Pawn /\ is_double_move(b.turn, mv)
    THEN [b EXCEPT !.en_passant = forward({mv.starting_square}, b.turn)]
    ELSE [b EXCEPT !.en_passant_prev = b.en_passant]

(* the en-passant bookkeeping at the head of do_move *)
do_move_en_passant(b, piece, mv) ==
    IF piece = Pawn /\ is_double_move(b.turn, mv)
    THEN [b EXCEPT !.en_passant = forward({mv.starting_square}, b.turn)]
    ELSE [b EXCEPT !.en_passant_prev = b.en_passant, !.en_passant = EMPTY]

(* the match on mv.flag of do_move *)
do_move_flag(b, piece, mv) ==
    IF mv.flag.tag = "EnPassant" THEN
        LET op == other_pawn(b, mv, b.turn)
            b1 == [b EXCEPT !.bitboards = remove_piece(@, Pawn, opponent(b.turn), op),
                            !.squares = [@ EXCEPT ![op] = None]]
        IN  do_simple_move(b1, piece, mv)
    ELSE IF mv.flag.tag = "Capture" THEN
        LET b1 == [b EXCEPT !.bitboards = remove_piece(@, mv.flag.arg, opponent(b.turn), mv.target_square),
                            !.squares = [@ EXCEPT ![mv.target_square] = None]]
        IN  do_simple_move(b1, piece, mv)
    ELSE IF mv.flag.tag = "Promotion" THEN
        LET bb1 == [b.bitboards EXCEPT ![piece] = @ \ {mv.starting_square}]
            bb2 == [bb1 EXCEPT ![mv.flag.arg] = @ \cup {mv.target_square}]
        IN  [b EXCEPT !.bitboards = bb2,
                      !.squares = [@ EXCEPT ![mv.target_square] = <<b.turn, mv.flag.arg>>]]
    ELSE IF mv.flag.tag = "Castle" THEN
        LET tg == castling_squares(b.turn, mv.flag.arg)
            cs == CASTLING_SQUARES[b.turn + 1][mv.flag.arg + 1]
            b1 == do_simple_move(b, King, Move(cs[1], tg[1], mv.flag))
        IN  do_simple_move(b1, Rook, Move(cs[2], tg[2], mv.flag))
    ELSE IF mv.flag.tag \in {"Untargeted", "NullMove"} THEN b
    ELSE do_simple_move(b, piece, mv)

do_move(b, mv) ==
    LET piece == get_piece_type(b, mv.starting_square)
        b1 == do_move_flag(do_move_en_passant(b, piece, mv), piece, mv)
    IN  [b1 EXCEPT !.move_filters = <<EMPTY, EMPTY>>,
                   !.bitboards = [@ EXCEPT ![ad_bitboard(opponent(b.turn))] = EMPTY],
                   !.move_count = @ + 1,
                   !.turn = opponent(b.turn)]

(* ------------------------------------------------------------------ *)
(* board.rs: move generation                                           *)
(* ------------------------------------------------------------------ *)
(* the assertion count_ones() == 1 of king_square and king_moves *)
king_square_panics(b, c) == Cardinality(get_piece_set(b, King, c)) # 1

king_square(b, c) == trailing_zeros(get_piece_set(b, King, c))

king_moves(b, c) ==
    possible_moves(King, king_square(b, c)) \ b.bitboards[ad_bitboard(opponent(c))]

in_check(b, c) ==
    get_piece_set(b, King, c) \cap b.bitboards[ad_bitboard(opponent(c))] # EMPTY

can_castle_short(b, c) ==
    LET cs == CASTLING_SQUARES[c + 1][1]
    IN  /\ b.castling_availability[c + 1][1]
        /\ ~in_check(b, c)
        /\ king_square(b, c) = cs[1]
        /\ get_piece_set(b, Rook, c) \cap {cs[2]} # EMPTY
        /\ all_pieces(b, c) \cap cs[3] = EMPTY
        /\ b.bitboards[ad_bitboard(opponent(c))] \cap cs[3] = EMPTY

can_castle_long(b, c) ==
    LET cs == CASTLING_SQUARES[c + 1][2]
    IN  /\ b.castling_availability[c + 1][1]
        /\ ~in_check(b, c)
        /\ king_square(b, c) = cs[1]
        /\ get_piece_set(b, Rook, c) \cap {cs[2]} # EMPTY
        /\ all_pieces(b, c) \cap cs[3] = EMPTY
        /\ b.bitboards[ad_bitboard(opponent(c))] \cap cs[3] = EMPTY

(* <<capture_mask, moves>> of the single pawn in the bitboard `pawn` *)
pawn_moves(b, pawn, c) ==
    LET square == trailing_zeros(pawn)
        single == forward(pawn, c) \ blockers(b)
        double == IF \/ (c = White /\ rank(square) = 1)
                     \/ (c = Black /\ rank(square) = 6)
                  THEN forward(forward(pawn, c), c)
                         \ (blockers(b) \cup forward(blockers(b) \cap FileBitboard(file(square)), c))
                  ELSE EMPTY
        capture_mask == IF file(square) = 0 THEN shl(forward(pawn, c), 1)
                        ELSE IF file(square) = 7 THEN shr(forward(pawn, c), 1)
                        ELSE shl(forward(pawn, c), 1) \cup shr(forward(pawn, c), 1)
        moves == single \cup double
                    \cup (all_pieces(b, opponent(c)) \cap capture_mask)
                    \cup (b.en_passant \cap capture_mask)
    IN  <<capture_mask, moves>>

(* one ray of slider_moves: at most n further steps from `position` *)
RECURSIVE slide_ray(_, _, _, _)
slide_ray(position, slider, relevant_blockers, n) ==
    IF n = 0 THEN EMPTY
    ELSE LET next == safe_shr(safe_shl(position, slider[1]), slider[2])
         IN  IF next \cap relevant_blockers # EMPTY THEN next
             ELSE next \cup slide_ray(next, slider, relevant_blockers, n - 1)

slider_moves(b, sl, c, start_position, relevant_blockers) ==
    UNION {slide_ray(start_position, sl[i], relevant_blockers, 7) : i \in DOMAIN sl}
        \ pieces(b, c)

(* one ray of pinned_pieces, from the king outwards: whether it ends in a check,
   the ray walked so far and the piece it found pinned (a set of at most one) *)
RECURSIVE pin_ray(_, _, _, _, _, _, _)
pin_ray(b, c, slider, position, pinned, ray, n) ==
    IF n = 0 THEN [check |-> FALSE, ray |-> EMPTY, pin |-> {}]
    ELSE
    LET next == safe_shr(safe_shl(position, slider[1]), slider[2])
        ray1 == ray \cup next
        own == next \cap pieces(b, c) # EMPTY
        pinned1 == IF own THEN {trailing_zeros(next)} ELSE pinned
        cannot_pin == IF slider \in OrthogonalSliders
                      THEN get_piece_set_any(b, Bishop)
                      ELSE get_piece_set_any(b, Rook)
        enemy_piece == next \cap sliding_pieces(b, opponent(c))
        nothing == [check |-> FALSE, ray |-> EMPTY, pin |-> {}]
    IN  IF own /\ pinned # {} THEN nothing
        ELSE IF enemy_piece # EMPTY /\ enemy_piece \cap cannot_pin # EMPTY THEN nothing
        ELSE IF enemy_piece # EMPTY /\ pinned1 = {} THEN [check |-> TRUE, ray |-> ray1, pin |-> {}]
        ELSE IF enemy_piece # EMPTY THEN [check |-> FALSE, ray |-> EMPTY, pin |-> pinned1]
        ELSE IF next \cap pieces(b, opponent(c)) # EMPTY THEN nothing
        ELSE IF next \cap CORNERS # EMPTY THEN nothing
        ELSE pin_ray(b, c, slider, next, pinned1, ray1, n - 1)

(* [pinned: the keys of the map of pinned pieces, checks: the count, rays: the bitboard] *)
pinned_pieces(b, c) ==
    LET king == {king_square(b, c)}
        checkers == (KNIGHT_MOVES[king_square(b, c)] \cap get_piece_set(b, Knight, opponent(c)))
                    \cup ((shr(forward(king, c), 1) \cup shl(forward(king, c), 1))
                            \cap get_piece_set(b, Pawn, opponent(c)))
        walks == [i \in DOMAIN QueenSliders |-> pin_ray(b, c, QueenSliders[i], king, {}, king, 7)]
        hits == {i \in DOMAIN QueenSliders : walks[i].check}
    IN  [pinned |-> UNION {walks[i].pin : i \in DOMAIN QueenSliders},
         checks |-> Cardinality(checkers) + Cardinality(hits),
         rays |-> checkers \cup UNION {walks[i].ray : i \in hits}]

(* the entry generate_moves leaves in move_bitboards for `square`: a later insert
   replaces an earlier one (king, pawns, bishops, rooks, queens, knights) *)
slider_entry(b, c, p, square) ==
    LET relevant_blockers == all_pieces_any(b) \cap possible_moves(p, square)
        moves == slider_moves(b, sliders(p), c, {square}, relevant_blockers)
    IN  (moves \ pieces(b, c)) \cap possible_moves(p, square)

move_bitboards_entry(b, c, square) ==
    IF square \in get_piece_set(b, Knight, c) THEN KNIGHT_MOVES[square]
    ELSE IF square \in get_piece_set(b, Queen, c) THEN slider_entry(b, c, Queen, square)
    ELSE IF square \in get_piece_set(b, Rook, c) THEN slider_entry(b, c, Rook, square)
    ELSE IF square \in get_piece_set(b, Bishop, c) THEN slider_entry(b, c, Bishop, square)
    ELSE IF square \in get_piece_set(b, Pawn, c) THEN pawn_moves(b, {square}, c)[2] \ pieces(b, c)
    ELSE king_moves(b, c) \ pieces(b, c)

move_bitboards_keys(b, c) ==
    {king_square(b, c)} \cup get_piece_set(b, Pawn, c) \cup sliding_pieces(b, c)
        \cup get_piece_set(b, Knight, c)

(* the attacked/defended bitboard of c after generate_moves(c): only ever or-ed into *)
generate_moves_ad(b, c) ==
    b.bitboards[ad_bitboard(c)]
        \cup (king_moves(b, c) \ pieces(b, c))
        \cup UNION {pawn_moves(b, {sq}, c)[1] : sq \in get_piece_set(b, Pawn, c)}
        \cup UNION {UNION {slider_entry(b, c, SLIDING[i], sq) : sq \in get_piece_set(b, SLIDING[i], c)}
                        : i \in DOMAIN SLIDING}
        \cup UNION {KNIGHT_MOVES[sq] : sq \in get_piece_set(b, Knight, c)}

generate_moves_castles(b, c) ==
    (IF can_castle_short(b, c) /\ ~in_check(b, c)
     THEN << Move(king_square(b, c), castling_squares(c, Short)[1], FlagCastle(Short)) >>
     ELSE << >>)
    \o
    (IF can_castle_long(b, c) /\ ~in_check(b, c)
     THEN << Move(king_square(b, c), castling_squares(c, Long)[2], FlagCastle(Long)) >>
     ELSE << >>)

(* the squares of the 'conv loop whose inner loop reaches the castling bookkeeping *)
conv_visited(b, c, pinned) ==
    {sq \in move_bitboards_keys(b, c) :
        /\ sq \notin pieces(b, opponent(c))
        /\ sq \notin pinned
        /\ move_bitboards_entry(b, c, sq) \ pieces(b, c) # EMPTY}

(* castling_availability[c] after the 'conv loop *)
generate_moves_castling(b, c, pinned) ==
    LET visited == conv_visited(b, c, pinned)
        old == b.castling_availability[c + 1]
        king_home == \E sq \in visited :
                        get_piece_type(b, sq) = King /\ sq = CASTLING_SQUARES[c + 1][1][1]
        rook_h == \E sq \in visited : get_piece_type(b, sq) = Rook /\ file(sq) = 7
        rook_a == \E sq \in visited : get_piece_type(b, sq) = Rook /\ file(sq) = 0
    IN  IF king_home THEN <<FALSE, FALSE>>
        ELSE << old[1] /\ ~rook_h, old[2] /\ ~rook_a >>

(* the moves pushed for one target of one piece, in the order of the code *)
conv_target(b, c, checkers, sq, target_sq) ==
    LET piece == get_piece_type(b, sq)
    IN  IF target_sq \in pieces(b, c) THEN << >>
        ELSE IF in_check(b, c) /\ checkers.checks = 1 /\ piece # King
                /\ target_sq \notin checkers.rays THEN << >>
        ELSE IF in_check(b, c) /\ checkers.checks > 1 /\ piece # King THEN << >>
        ELSE IF piece = Pawn /\ rank(target_sq) = promotion_rank(c)
             THEN [i \in DOMAIN PROMOTIONS |-> Move(sq, target_sq, FlagPromotion(PROMOTIONS[i]))]
        ELSE IF piece = Pawn /\ {target_sq} \cap b.en_passant # EMPTY
             THEN << Move(sq, target_sq,
                          FlagEnPassant(trailing_zeros(backward({target_sq}, b.turn)))) >>
        ELSE IF {target_sq} \cap all_pieces(b, opponent(c)) # EMPTY
             THEN IF b.squares[target_sq] = None THEN << >>
                  ELSE << Move(sq, target_sq, FlagCapture(b.squares[target_sq][2])) >>
        ELSE << Move(sq, target_sq, FlagNone) >>

RECURSIVE conv_targets(_, _, _, _, _, _)
conv_targets(b, c, checkers, sq, targets, i) ==
    IF i > Len(targets) THEN << >>
    ELSE conv_target(b, c, checkers, sq, targets[i])
            \o conv_targets(b, c, checkers, sq, targets, i + 1)

RECURSIVE conv(_, _, _, _, _, _)
conv(b, c, pinned, checkers, keys, i) ==
    IF i > Len(keys) THEN << >>
    ELSE (IF keys[i] \in pieces(b, opponent(c)) \/ keys[i] \in pinned THEN << >>
          ELSE conv_targets(b, c, checkers, keys[i],
                            active_squares(move_bitboards_entry(b, c, keys[i])), 1))
         \o conv(b, c, pinned, checkers, keys, i + 1)

generate_moves_panics(b, c) ==
    \/ king_square_panics(b, c)
    \/ \E sq \in get_piece_set(b, Pawn, c) : \E t \in b.en_passant :
          /\ t \in move_bitboards_entry(b, c, sq)
          /\ rank(t) # promotion_rank(c)
          /\ SquareIndexPanics(trailing_zeros(backward({t}, b.turn)))

(* Vec<Move> returned by generate_moves(color) *)
generate_moves(b, c) ==
    LET pins == pinned_pieces(b, c)
    IN  generate_moves_castles(b, c)
            \o conv(b, c, pins.pinned, pins, active_squares(move_bitboards_keys(b, c)), 1)

(* the Board after generate_moves(color) *)
generate_moves_board(b, c) ==
    [b EXCEPT !.bitboards = [@ EXCEPT ![ad_bitboard(c)] = generate_moves_ad(b, c)],
              !.castling_availability =
                  [@ EXCEPT ![c + 1] = generate_moves_castling(b, c, pinned_pieces(b, c).pinned)]]

prepare_panics(b) == generate_moves_panics(b, opponent(b.turn))

prepare(b) == generate_moves_board(b, opponent(b.turn))

(* ------------------------------------------------------------------ *)
(* board.rs: load_fen.  A FEN is given field by field, each text field *)
(* as the sequence of its characters.                                  *)
(* ------------------------------------------------------------------ *)
DigitValue == [ch \in {"0", "1", "2", "3", "4", "5", "6", "7", "8", "9"} |->
    CASE ch = "0" -> 0 [] ch = "1" -> 1 [] ch = "2" -> 2 [] ch = "3" -> 3 [] ch = "4" -> 4
      [] ch = "5" -> 5 [] ch = "6" -> 6 [] ch = "7" -> 7 [] ch = "8" -> 8 [] ch = "9" -> 9]

UpperLetters == {"P", "N", "B", "R", "Q", "K"}

PieceOfLetter(ch) ==
    CASE ch \in {"p", "P"} -> Pawn
      [] ch \in {"n", "N"} -> Knight
      [] ch \in {"b", "B"} -> Bishop
      [] ch \in {"r", "R"} -> Rook
      [] ch \in {"q", "Q"} -> Queen
      [] ch \in {"k", "K"} -> King

(* char::to_ascii_uppercase on the file letters *)
to_ascii_uppercase(ch) ==
    CASE ch = "a" -> "A" [] ch = "b" -> "B" [] ch = "c" -> "C" [] ch = "d" -> "D"
      [] ch = "e" -> "E" [] ch = "f" -> "F" [] ch = "g" -> "G" [] ch = "h" -> "H"
      [] OTHER -> ch

FileOfLetter(ch) ==
    CASE ch = "a" -> 0 [] ch = "b" -> 1 [] ch = "c" -> 2 [] ch = "d" -> 3
      [] ch = "e" -> 4 [] ch = "f" -> 5 [] ch = "g" -> 6 [] ch = "h" -> 7

(* the placement loop: r and f are the 1-based rank and file cursors *)
RECURSIVE load_placement(_, _, _, _, _)
load_placement(b, placement, i, r, f) ==
    IF i > Len(placement) \/ r = 0 THEN b
    ELSE LET p == placement[i]
         IN  IF p \in DOMAIN DigitValue
             THEN load_placement(b, placement, i + 1, r, (f % 8) + DigitValue[p])
             ELSE IF p = "/" THEN load_placement(b, placement, i + 1, r - 1, 1)
             ELSE LET color == IF p \in UpperLetters THEN White ELSE Black
                      piece == PieceOfLetter(p)
                      sq == ((r - 1) * 8) + (f - 1)
                      b1 == [b EXCEPT !.squares = [@ EXCEPT ![sq] = <<color, piece>>],
                                      !.bitboards = insert_piece(@, SquareNew(f - 1, r - 1), piece, color)]
                  IN  load_placement(b1, placement, i + 1, r, f + 1)

load_castling(castling) ==
    IF castling = <<"-">> THEN << <<FALSE, FALSE>>, <<FALSE, FALSE>> >>
    ELSE LET has(ch) == \E i \in DOMAIN castling : castling[i] = ch
         IN  << <<has("K"), has("Q")>>, <<has("k"), has("q")>> >>

(* Square::from_str, a Result as a set of at most one Square: a file letter of either
   case (load_fen hands it upper case, UciMove::parse as typed) and a rank digit *)
Square_from_str(s) ==
    IF Len(s) # 2 THEN {}
    ELSE IF s[2] \notin {"1", "2", "3", "4", "5", "6", "7", "8"} THEN {}
    ELSE {SquareNew(FileOfLetter(ch), DigitValue[s[2]] - 1) :
             ch \in {lc \in {"a", "b", "c", "d", "e", "f", "g", "h"} :
                        s[1] \in {lc, to_ascii_uppercase(lc)}}}

(* an unparsable name is reported on stderr and the target is left empty *)
load_en_passant(name) ==
    IF \E i \in DOMAIN name : name[i] = "-" THEN EMPTY
    ELSE Square_from_str(name)

load_fen(fen) ==
    LET b1 == load_placement(BoardNew, fen.placement, 1, 8, 1)
    IN  [b1 EXCEPT !.turn = IF fen.turn = "w" THEN White ELSE Black,
                   !.castling_availability = load_castling(fen.castling),
                   !.en_passant = load_en_passant(fen.en_passant),
                   !.halfmove_count = fen.halfmove,
                   !.move_count = fen.fullmove]

(* load_fen on the String itself, given as the sequence of the parts fen.split(' ')
   yields, each part the sequence of its characters.  The placement loop panics on a
   digit 0 or 9, on a letter that names no piece and on a piece beyond the eighth
   file (File::index) *)
RECURSIVE load_placement_panics(_, _, _, _)
load_placement_panics(placement, i, r, f) ==
    IF i > Len(placement) \/ r = 0 THEN FALSE
    ELSE LET p == placement[i]
         IN  IF p \in DOMAIN DigitValue
             THEN IF DigitValue[p] > 8 \/ DigitValue[p] = 0 THEN TRUE
                  ELSE load_placement_panics(placement, i + 1, r, (f % 8) + DigitValue[p])
             ELSE IF p = "/" THEN load_placement_panics(placement, i + 1, r - 1, 1)
             ELSE IF p \notin {"p", "n", "b", "r", "q", "k", "P", "N", "B", "R", "Q", "K"} THEN TRUE
             ELSE IF f > 8 THEN TRUE
             ELSE load_placement_panics(placement, i + 1, r, f + 1)

(* str::parse::<usize>, a Result as a set of at most one number: decimal digits, after
   an optional '+'; the texts tried are far too short to overflow *)
RECURSIVE decimal(_, _, _)
decimal(digits, i, acc) ==
    IF i > Len(digits) THEN acc ELSE decimal(digits, i + 1, acc * 10 + DigitValue[digits[i]])

parse_usize(s) ==
    LET digits == IF s # << >> /\ s[1] = "+" THEN Tail(s) ELSE s
    IN  IF digits = << >> \/ \E i \in DOMAIN digits : digits[i] \notin DOMAIN DigitValue
        THEN {}
        ELSE {decimal(digits, 1, 0)}

(* panic!("Invalid FEN") in the placement, panic!("Invalid FEN.") at the side to move *)
load_fen_panics(parts) ==
    \/ load_placement_panics(parts[1], 1, 8, 1)
    \/ Len(parts) < 2
    \/ parts[2] \notin {<<"w">>, <<"b">>}

(* load_fen returns None: a `?` on a missing part or on a clock that does not parse *)
load_fen_none(parts) ==
    \/ Len(parts) < 5
    \/ parse_usize(parts[5]) = {}
    \/ Len(parts) < 6
    \/ parse_usize(parts[6]) = {}

(* the Board load_fen returns when it returns one *)
load_fen_text(parts) ==
    load_fen([placement |-> parts[1], turn |-> parts[2][1], castling |-> parts[3],
              en_passant |-> parts[4],
              halfmove |-> CHOOSE n \in parse_usize(parts[5]) : TRUE,
              fullmove |-> CHOOSE n \in parse_usize(parts[6]) : TRUE])

(* ------------------------------------------------------------------ *)
(* piece.rs, uci.rs: UciMove::parse.  A string is the sequence of its   *)
(* characters, all ASCII, so that byte and character positions agree;   *)
(* an Option<Piece> is the piece or 0, an Option<UciMove> a set of at   *)
(* most one UciMove.                                                    *)
(* ------------------------------------------------------------------ *)
from_notation(c) ==
    CASE c = "K" -> King [] c = "Q" -> Queen [] c = "N" -> Knight
      [] c = "B" -> Bishop [] c = "P" -> Pawn [] c = "R" -> Rook
      [] OTHER -> 0

is_sliding(p) == p \in {Bishop, Rook, Queen}

UciMove(s, t, p) == [starting_square |-> s, target_square |-> t, promotion |-> p]

UciMove_parse(mv) ==
    IF Len(mv) < 4 THEN {}
    ELSE LET start == Square_from_str(SubSeq(mv, 1, 2))
             target == Square_from_str(SubSeq(mv, 3, 4))
             promotion == IF Len(mv) <= 4 THEN 0 ELSE from_notation(mv[5])
         IN  IF start = {} \/ target = {} THEN {}
             ELSE IF promotion # 0 /\ ~is_sliding(promotion) THEN {}
             ELSE {UciMove(s, t, promotion) : s \in start, t \in target}

STARTING_FEN ==
    [placement |-> <<"r", "n", "b", "q", "k", "b", "n", "r", "/", "p", "p", "p", "p", "p", "p", "p", "p", "/", "8", "/", "8", "/", "8", "/", "8", "/", "P", "P", "P", "P", "P", "P", "P", "P", "/", "R", "N", "B", "Q", "K", "B", "N", "R">>,
     turn |-> "w", castling |-> <<"K", "Q", "k", "q">>, en_passant |-> <<"-">>,
     halfmove |-> 0, fullmove |-> 1]

PromotionFen ==
    [placement |-> <<"4", "k", "3", "/", "P", "7", "/", "8", "/", "8", "/", "8", "/", "8", "/", "8", "/", "4", "K", "3">>,
     turn |-> "w", castling |-> <<"-">>, en_passant |-> <<"-">>,
     halfmove |-> 0, fullmove |-> 1]

CastleFen ==
    [placement |-> <<"4", "k", "3", "/", "8", "/", "8", "/", "8", "/", "8", "/", "8", "/", "8", "/", "4", "K", "1", "n", "R">>,
     turn |-> "w", castling |-> <<"K">>, en_passant |-> <<"-">>,
     halfmove |-> 0, fullmove |-> 1]

RookCheckFen ==
    [placement |-> <<"4", "k", "3", "/", "8", "/", "8", "/", "8", "/", "8", "/", "8", "/", "8", "/", "r", "3", "K", "3">>,
     turn |-> "w", castling |-> <<"-">>, en_passant |-> <<"-">>,
     halfmove |-> 0, fullmove |-> 1]

EnPassantFen ==
    [placement |-> <<"4", "k", "3", "/", "p", "7", "/", "8", "/", "8", "/", "4", "P", "3", "/", "8", "/", "8", "/", "4", "K", "3">>,
     turn |-> "b", castling |-> <<"-">>, en_passant |-> <<"e", "3">>,
     halfmove |-> 0, fullmove |-> 1]

RookCaptureFen ==
    [placement |-> <<"3", "q", "k", "b", "n", "r", "/", "3", "p", "p", "p", "p", "p", "/", "6", "N", "1", "/", "8", "/", "8", "/", "8", "/", "8", "/", "4", "K", "3">>,
     turn |-> "w", castling |-> <<"k">>, en_passant |-> <<"-">>,
     halfmove |-> 0, fullmove |-> 1]

(* ------------------------------------------------------------------ *)
(* utils.rs: perft, one step of its body per action.  `stack` holds one *)
(* frame per active call with depth > 0: the moves its loop has yet to  *)
(* finish, the first being the one in hand, and the nodes counted so    *)
(* far.  `entry` is the Board as the outermost call found it, `before`  *)
(* the Board as it was just before the latest do_move.                  *)
(* ------------------------------------------------------------------ *)
MaxDepth == 3

TestDepth == 4

Fens == {PromotionFen, CastleFen, RookCheckFen, EnPassantFen, RookCaptureFen}

(* further positions, as FENs:
     4kr2/8/8/8/8/8/8/4K2R w K - 0 1   (the rook on f8 attacks f1, the square the king would cross)
     4k1r1/8/8/8/8/8/8/4K1nR w K - 0 1   (the knight on g1 is defended by the rook on g8)
     4k3/8/8/8/8/8/8/R3K2R w KQ - 0 1   (both castlings open to White)
     r3k2r/8/8/8/8/8/8/4K3 b kq - 0 1   (both castlings open to Black)
     4k3/8/8/8/8/8/8/R3K2R w K - 0 1   (White holds the king-side right only)
     4k3/8/8/8/8/8/8/R3K2R w Q - 0 1   (White holds the queen-side right only)
     4k3/8/8/8/8/3n4/4P3/r3K3 w - - 0 1   (double check: rook a1 along the first rank, knight d3)
     4k3/8/8/8/8/8/7P/r3K3 w - - 0 1   (single check: rook a1 along the first rank)
     4k3/8/8/8/4r3/8/4R3/4K3 w - - 0 1   (the rook on e2 is pinned by the rook on e4)
     1n2k3/P7/8/8/8/8/8/4K3 w - - 0 1   (the pawn on a7 can push to a8 and capture on b8)
     k7/6P1/8/8/8/8/q1P4K/8 w - - 0 1   (no check: the pawn on c2 shields the king from the queen)
     8/8/8/8/1k1pP2R/8/8/4K3 b - e3 0 1   (d4xe3 en passant would open the fourth rank to the rook)
     4k3/8/8/8/3p4/8/4P3/4K3 w - - 0 1   (after e2e4 Black can capture en passant on e3)
     8/8/8/8/8/3k4/3r4/4K3 w - - 0 1   (the rook on d2 stands next to both kings) *)
GenFens ==
    Fens \cup
    { [placement |-> <<"k", "7", "/", "6", "P", "1", "/", "8", "/", "8", "/", "8", "/", "8", "/", "q", "1", "P", "4", "K", "/", "8">>,
       turn |-> "w", castling |-> <<"-">>, en_passant |-> <<"-">>,
       halfmove |-> 0, fullmove |-> 1],
      [placement |-> <<"4", "k", "1", "r", "1", "/", "8", "/", "8", "/", "8", "/", "8", "/", "8", "/", "8", "/", "4", "K", "1", "n", "R">>,
       turn |-> "w", castling |-> <<"K">>, en_passant |-> <<"-">>,
       halfmove |-> 0, fullmove |-> 1],
      [placement |-> <<"4", "k", "r", "2", "/", "8", "/", "8", "/", "8", "/", "8", "/", "8", "/", "8", "/", "4", "K", "2", "R">>,
       turn |-> "w", castling |-> <<"K">>, en_passant |-> <<"-">>,
       halfmove |-> 0, fullmove |-> 1],
      [placement |-> <<"4", "k", "3", "/", "8", "/", "8", "/", "8", "/", "8", "/", "8", "/", "8", "/", "R", "3", "K", "2", "R">>,
       turn |-> "w", castling |-> <<"K", "Q">>, en_passant |-> <<"-">>,
       halfmove |-> 0, fullmove |-> 1],
      [placement |-> <<"r", "3", "k", "2", "r", "/", "8", "/", "8", "/", "8", "/", "8", "/", "8", "/", "8", "/", "4", "K", "3">>,
       turn |-> "b", castling |-> <<"k", "q">>, en_passant |-> <<"-">>,
       halfmove |-> 0, fullmove |-> 1],
      [placement |-> <<"4", "k", "3", "/", "8", "/", "8", "/", "8", "/", "8", "/", "8", "/", "8", "/", "R", "3", "K", "2", "R">>,
       turn |-> "w", castling |-> <<"K">>, en_passant |-> <<"-">>,
       halfmove |-> 0, fullmove |-> 1],
      [placement |-> <<"4", "k", "3", "/", "8", "/", "8", "/", "8", "/", "8", "/", "8", "/", "8", "/", "R", "3", "K", "2", "R">>,
       turn |-> "w", castling |-> <<"Q">>, en_passant |-> <<"-">>,
       halfmove |-> 0, fullmove |-> 1],
      [placement |-> <<"4", "k", "3", "/", "8", "/", "8", "/", "8", "/", "8", "/", "3", "n", "4", "/", "4", "P", "3", "/", "r", "3", "K", "3">>,
       turn |-> "w", castling |-> <<"-">>, en_passant |-> <<"-">>,
       halfmove |-> 0, fullmove |-> 1],
      [placement |-> <<"4", "k", "3", "/", "8", "/", "8", "/", "8", "/", "8", "/", "8", "/", "7", "P", "/", "r", "3", "K", "3">>,
       turn |-> "w", castling |-> <<"-">>, en_passant |-> <<"-">>,
       halfmove |-> 0, fullmove |-> 1],
      [placement |-> <<"4", "k", "3", "/", "8", "/", "8", "/", "8", "/", "4", "r", "3", "/", "8", "/", "4", "R", "3", "/", "4", "K", "3">>,
       turn |-> "w", castling |-> <<"-">>, en_passant |-> <<"-">>,
       halfmove |-> 0, fullmove |-> 1],
      [placement |-> <<"1", "n", "2", "k", "3", "/", "P", "7", "/", "8", "/", "8", "/", "8", "/", "8", "/", "8", "/", "4", "K", "3">>,
       turn |-> "w", castling |-> <<"-">>, en_passant |-> <<"-">>,
       halfmove |-> 0, fullmove |-> 1],
      [placement |-> <<"8", "/", "8", "/", "8", "/", "8", "/", "1", "k", "1", "p", "P", "2", "R", "/", "8", "/", "8", "/", "4", "K", "3">>,
       turn |-> "b", castling |-> <<"-">>, en_passant |-> <<"e", "3">>,
       halfmove |-> 0, fullmove |-> 1],
      [placement |-> <<"4", "k", "3", "/", "8", "/", "8", "/", "8", "/", "3", "p", "4", "/", "8", "/", "4", "P", "3", "/", "4", "K", "3">>,
       turn |-> "w", castling |-> <<"-">>, en_passant |-> <<"-">>,
       halfmove |-> 0, fullmove |-> 1],
      [placement |-> <<"8", "/", "8", "/", "8", "/", "8", "/", "8", "/", "3", "k", "4", "/", "3", "r", "4", "/", "4", "K", "3">>,
       turn |-> "w", castling |-> <<"-">>, en_passant |-> <<"-">>,
       halfmove |-> 0, fullmove |-> 1] }

VARIABLES board, stack, pc, arg, ret, todo, results, entry, before

(* uci.rs and main.rs: `text` is the string last given to UciMove::parse and `parsed`
   what it returned (an Option as a set of at most one element); is_position_set is
   the field of UciEngine, whose board is `board`; `cmds` are the commands
   handle_command has been called with and `outcome` is what the last call returned *)
VARIABLES text, parsed, is_position_set, cmds, outcome

(* main.rs start_uci: `stdin` are the lines the input thread has read, `ctl` the
   EngineControl messages sent and not yet received, `evt` every EngineEvent sent so
   far, of which the event loop has taken the first threads.seen; `threads` says
   where the input thread (io), the engine thread and start_uci itself (main) are;
   `handled` records the calls of handle_command in the engine thread: the command,
   what came of it, how many events had been sent before and after it and whether
   the board was changed *)
VARIABLES stdin, ctl, evt, threads, handled

thread_vars == <<stdin, ctl, evt, threads, handled>>

uci_vars == <<text, parsed, is_position_set, cmds, outcome, stdin, ctl, evt, threads, handled>>

vars == <<board, stack, pc, arg, ret, todo, results, entry, before,
          text, parsed, is_position_set, cmds, outcome,
          stdin, ctl, evt, threads, handled>>

(* UciEngine::run_thread has constructed the engine and no command has arrived *)
UciIdle ==
    /\ text = << >>
    /\ parsed = {}
    /\ is_position_set = FALSE
    /\ cmds = << >>
    /\ outcome = "none"
    /\ stdin = << >>
    /\ ctl = << >>
    /\ evt = << >>
    /\ threads = [io |-> "none", engine |-> "none", main |-> "none", seen |-> 0]
    /\ handled = << >>

Top == stack[Len(stack)]

CurrentMove == Head(Top.moves)

Init ==
    /\ \E fen \in Fens : board = load_fen(fen)
    /\ \E d \in 0..MaxDepth : todo = <<d>>
    /\ stack = << >>
    /\ pc = "idle"
    /\ arg = 0
    /\ ret = 0
    /\ results = << >>
    /\ entry = board
    /\ before = board
    /\ UciIdle

(* tests.rs perft::startpos: depths 1..=4 one after another on one board *)
InitStartpos ==
    /\ board = load_fen(STARTING_FEN)
    /\ todo = [d \in 1..TestDepth |-> d]
    /\ stack = << >>
    /\ pc = "idle"
    /\ arg = 0
    /\ ret = 0
    /\ results = << >>
    /\ entry = board
    /\ before = board
    /\ UciIdle

(* perft(board, d, d) on one of the further positions *)
InitGen ==
    /\ \E fen \in GenFens : board = load_fen(fen)
    /\ \E d \in 0..MaxDepth : todo = <<d>>
    /\ stack = << >>
    /\ pc = "idle"
    /\ arg = 0
    /\ ret = 0
    /\ results = << >>
    /\ entry = board
    /\ before = board
    /\ UciIdle

(* the caller invokes perft(board, d, d) *)
PerftStart ==
    /\ pc = "idle"
    /\ todo # << >>
    /\ arg' = Head(todo)
    /\ todo' = Tail(todo)
    /\ entry' = board
    /\ pc' = "call"
    /\ UNCHANGED <<board, stack, ret, results, before>>
    /\ UNCHANGED uci_vars

(* the outermost call with depth == 0: return 1 *)
PerftLeaf ==
    /\ pc = "call"
    /\ arg = 0
    /\ ret' = 1
    /\ pc' = "ret"
    /\ UNCHANGED <<board, stack, arg, todo, results, entry, before>>
    /\ UNCHANGED uci_vars

(* perft with depth > 0: board.prepare(), then board.generate_moves(board.turn) *)
PerftEnter ==
    /\ pc = "call"
    /\ arg > 0
    /\ IF prepare_panics(board)
       THEN /\ pc' = "panic"
            /\ UNCHANGED <<board, stack>>
       ELSE \E b1 \in {prepare(board)} :
                IF generate_moves_panics(b1, b1.turn)
                THEN /\ pc' = "panic"
                     /\ board' = b1
                     /\ UNCHANGED stack
                ELSE /\ board' = generate_moves_board(b1, b1.turn)
                     /\ stack' = Append(stack, [depth |-> arg,
                                                moves |-> generate_moves(b1, b1.turn),
                                                nodes |-> 0])
                     /\ pc' = "loop"
    /\ UNCHANGED <<arg, ret, todo, results, entry, before>>
    /\ UNCHANGED uci_vars

(* the loop body up to the recursive call: board.do_move(move).unwrap(); a recursive
   call with depth 0 returns 1 at once *)
PerftDo ==
    /\ pc = "loop"
    /\ Top.moves # << >>
    /\ IF do_move_panics(board, CurrentMove)
       THEN /\ pc' = "panic"
            /\ UNCHANGED <<board, arg, ret, before>>
       ELSE /\ board' = do_move(board, CurrentMove)
            /\ before' = board
            /\ arg' = Top.depth - 1
            /\ IF Top.depth - 1 = 0
               THEN pc' = "ret" /\ ret' = 1
               ELSE pc' = "call" /\ UNCHANGED ret
    /\ UNCHANGED <<stack, todo, results, entry>>
    /\ UNCHANGED uci_vars

(* utils.rs perft as a function of the Board it is given: the Board it leaves, the
   nodes it returns, and whether an unwrap, expect or assertion in it panicked.  A
   nested call never has depth == start_depth, so it prints nothing. *)
RECURSIVE perft(_, _)
RECURSIVE perft_loop(_, _, _, _, _)
perft(b, depth) ==
    IF depth = 0 THEN [board |-> b, nodes |-> 1, panics |-> FALSE]
    ELSE IF prepare_panics(b) THEN [board |-> b, nodes |-> 0, panics |-> TRUE]
    ELSE LET b1 == prepare(b)
         IN  IF generate_moves_panics(b1, b1.turn)
             THEN [board |-> b1, nodes |-> 0, panics |-> TRUE]
             ELSE perft_loop(generate_moves_board(b1, b1.turn), depth,
                             generate_moves(b1, b1.turn), 1, 0)

perft_loop(b, depth, moves, i, nodes) ==
    IF i > Len(moves) THEN [board |-> b, nodes |-> nodes, panics |-> FALSE]
    ELSE IF do_move_panics(b, moves[i]) THEN [board |-> b, nodes |-> nodes, panics |-> TRUE]
    ELSE LET r == perft(do_move(b, moves[i]), depth - 1)
         IN  IF r.panics THEN r
             ELSE IF undo_move_panics(r.board, moves[i])
             THEN [board |-> r.board, nodes |-> nodes, panics |-> TRUE]
             ELSE perft_loop(undo_move(r.board, moves[i]), depth, moves, i + 1,
                             nodes + r.nodes)

(* the loop body through the recursive call, a call of depth 0 or 1 taken as one
   step: board.do_move(move).unwrap(); res = perft(board, start_depth, depth - 1) *)
PerftDoCall ==
    /\ pc = "loop"
    /\ Top.depth <= 2
    /\ Top.moves # << >>
    /\ IF do_move_panics(board, CurrentMove)
       THEN /\ pc' = "panic"
            /\ UNCHANGED <<board, arg, ret, before>>
       ELSE \E r \in {perft(do_move(board, CurrentMove), Top.depth - 1)} :
                /\ board' = r.board
                /\ before' = board
                /\ arg' = Top.depth - 1
                /\ IF r.panics
                   THEN pc' = "panic" /\ UNCHANGED ret
                   ELSE pc' = "ret" /\ ret' = r.nodes
    /\ UNCHANGED <<stack, todo, results, entry>>
    /\ UNCHANGED uci_vars

(* after the recursive call: board.undo_move(move).unwrap(); nodes += res; the
   outermost call (depth == start_depth) then prints the move, for which it expects a
   piece on the move's starting square *)
PerftUndo ==
    /\ pc = "ret"
    /\ stack # << >>
    /\ IF undo_move_panics(board, CurrentMove)
       THEN /\ pc' = "panic"
            /\ UNCHANGED <<board, stack>>
       ELSE /\ board' = undo_move(board, CurrentMove)
            /\ IF Len(stack) = 1 /\ get_piece_type(board', CurrentMove.starting_square) = 0
               THEN pc' = "panic" /\ UNCHANGED stack
               ELSE /\ stack' = [stack EXCEPT ![Len(stack)].nodes = @ + ret,
                                              ![Len(stack)].moves = Tail(@)]
                    /\ pc' = "loop"
    /\ UNCHANGED <<arg, ret, todo, results, entry, before>>
    /\ UNCHANGED uci_vars

(* the loop is over: return nodes *)
PerftReturn ==
    /\ pc = "loop"
    /\ Top.moves = << >>
    /\ ret' = Top.nodes
    /\ stack' = SubSeq(stack, 1, Len(stack) - 1)
    /\ pc' = "ret"
    /\ UNCHANGED <<board, arg, todo, results, entry, before>>
    /\ UNCHANGED uci_vars

(* the outermost call returns to the caller *)
PerftFinish ==
    /\ pc = "ret"
    /\ stack = << >>
    /\ results' = Append(results, ret)
    /\ pc' = "idle"
    /\ UNCHANGED <<board, stack, arg, ret, todo, entry, before>>
    /\ UNCHANGED uci_vars

Next ==
    \/ PerftStart
    \/ PerftLeaf
    \/ PerftEnter
    \/ PerftDo
    \/ PerftUndo
    \/ PerftReturn
    \/ PerftFinish

(* the driver of tests.rs, which never asks for depth 0; the recursive calls of
   depth 0 and 1 are taken as one step each *)
NextStartpos ==
    \/ PerftStart
    \/ PerftEnter
    \/ (pc = "loop" /\ Top.depth > 2 /\ PerftDo)
    \/ PerftDoCall
    \/ PerftUndo
    \/ PerftReturn
    \/ PerftFinish

Spec == Init /\ [][Next]_vars

SpecStartpos == InitStartpos /\ [][NextStartpos]_vars

SpecGen == InitGen /\ [][Next]_vars

(* ------------------------------------------------------------------ *)
(* uci.rs: UciMove::parse applied to a move string, as the tests of     *)
(* move_parser_tests apply it                                           *)
(* ------------------------------------------------------------------ *)
(* the texts tried: two two-character texts as squares, of which the last three name
   no square, followed by nothing, one letter, or more than one; and texts shorter
   than two squares *)
MoveStrings ==
    LET SquareTexts ==
            { <<"a", "2">>, <<"a", "4">>, <<"e", "7">>, <<"e", "8">>, <<"H", "1">>,
              <<"i", "1">>, <<"a", "9">>, <<"4", "a">> }
        PromotionTexts ==
            { << >>, <<"Q", "Q">>, <<"k", "q">> }
                \cup { <<c>> : c \in {"q", "r", "b", "n", "k", "p", "Q", "R", "B", "N", "K", "P", "x", "1"} }
    IN  { from \o to \o promo : from \in SquareTexts, to \in SquareTexts, promo \in PromotionTexts }
            \cup { << >>, <<"a", "2">>, <<"a", "2", "a">> }

InitParse ==
    /\ text \in MoveStrings
    /\ parsed = {}
    /\ pc = "parse"
    /\ board = BoardNew
    /\ stack = << >>
    /\ arg = 0
    /\ ret = 0
    /\ todo = << >>
    /\ results = << >>
    /\ entry = board
    /\ before = board
    /\ is_position_set = FALSE
    /\ cmds = << >>
    /\ outcome = "none"
    /\ stdin = << >>
    /\ ctl = << >>
    /\ evt = << >>
    /\ threads = [io |-> "none", engine |-> "none", main |-> "none", seen |-> 0]
    /\ handled = << >>

(* UciMove::parse(text) *)
Parse ==
    /\ pc = "parse"
    /\ parsed' = UciMove_parse(text)
    /\ pc' = "parsed"
    /\ UNCHANGED <<board, stack, arg, ret, todo, results, entry, before,
                   text, is_position_set, cmds, outcome>>
    /\ UNCHANGED thread_vars

NextParse == Parse

SpecParse == InitParse /\ [][NextParse]_vars

(* ------------------------------------------------------------------ *)
(* main.rs: UciEngine::handle_command on Position commands              *)
(* ------------------------------------------------------------------ *)
MaxCommands == 2

MaxMoves == 2

(* STARTING_FEN of main.rs as the String load_fen is given *)
STARTING_FEN_TEXT ==
    <<STARTING_FEN.placement, <<"w">>, STARTING_FEN.castling, STARTING_FEN.en_passant,
      <<"0">>, <<"1">> >>

(* Board::uci_to_board_move, which is not among the sources: the move among those
   generated for the position (prepare, then generate_moves) that has the squares
   and the promotion of mv, an Option as a set of at most one Move *)
uci_to_board_move(b, color, mv) ==
    UNION { LET hit == {i \in DOMAIN moves :
                           /\ moves[i].starting_square = mv.starting_square
                           /\ moves[i].target_square = mv.target_square
                           /\ IF moves[i].flag.tag = "Promotion"
                              THEN moves[i].flag.arg = mv.promotion
                              ELSE mv.promotion = 0}
            IN  IF hit = {} THEN {} ELSE {moves[CHOOSE i \in hit : \A j \in hit : i <= j]}
          : moves \in {generate_moves(b1, color) : b1 \in {prepare(b)}} }

(* the loop `for mv in moves` of the Position branch: the Board it leaves and whether
   it left through the `?` on a move uci_to_board_move does not find *)
RECURSIVE position_moves(_, _, _)
position_moves(b, moves, i) ==
    IF i > Len(moves) THEN [board |-> b, err |-> FALSE]
    ELSE LET m == uci_to_board_move(b, b.turn, moves[i])
         IN  IF m = {} THEN [board |-> b, err |-> TRUE]
             ELSE position_moves(do_move(b, CHOOSE x \in m : TRUE), moves, i + 1)

(* the FENs of the Position commands tried: none (startpos), two that load, and
   malformed ones: parts missing, a letter that names no piece, a side to move that
   is neither w nor b, an en-passant square and clocks that do not parse *)
KingsPlacement ==
    <<"4", "k", "3", "/", "8", "/", "8", "/", "8", "/", "8", "/", "8", "/", "8", "/", "4", "K", "3">>

UciFens ==
    { << >>,
      <<KingsPlacement, <<"w">>, <<"-">>, <<"-">>, <<"0">>, <<"1">> >>,
      <<PromotionFen.placement, <<"w">>, <<"-">>, <<"-">>, <<"+", "3">>, <<"7">> >>,
      <<KingsPlacement>>,
      <<KingsPlacement, <<"w">> >>,
      <<KingsPlacement, <<"w">>, <<"-">> >>,
      <<KingsPlacement, <<"w">>, <<"-">>, <<"-">> >>,
      <<KingsPlacement, <<"w">>, <<"-">>, <<"-">>, <<"0">> >>,
      <<[KingsPlacement EXCEPT ![1] = "x"], <<"w">>, <<"-">>, <<"-">>, <<"0">>, <<"1">> >>,
      <<KingsPlacement, <<"x">>, <<"-">>, <<"-">>, <<"0">>, <<"1">> >>,
      <<KingsPlacement, <<"w">>, <<"-">>, <<"z", "9">>, <<"0">>, <<"1">> >>,
      <<KingsPlacement, <<"w">>, <<"-">>, <<"-">>, <<"x">>, <<"1">> >>,
      <<KingsPlacement, <<"w">>, <<"-">>, <<"-">>, <<"0">>, <<"-", "1">> >> }

(* the moves of the commands are what UciMove::parse makes of e2e4 and e7e5 *)
UciMoves ==
    UciMove_parse(<<"e", "2", "e", "4">>) \cup UciMove_parse(<<"e", "7", "e", "5">>)

MoveLists == UNION {[1..n -> UciMoves] : n \in 0..MaxMoves}

PositionCommands == [fen : UciFens, moves : MoveLists]

(* run_thread: Board::new(), is_position_set: false *)
InitUci ==
    /\ board = BoardNew
    /\ pc = "uci"
    /\ stack = << >>
    /\ arg = 0
    /\ ret = 0
    /\ todo = << >>
    /\ results = << >>
    /\ entry = board
    /\ before = board
    /\ UciIdle

(* handle_command(UciCommand::Position { fen, moves }); `before` is the Board the
   engine held when the command arrived.  A panic ends the engine thread. *)
HandlePosition ==
    /\ pc = "uci"
    /\ outcome # "panic"
    /\ Len(cmds) < MaxCommands
    /\ \E c \in PositionCommands :
          /\ cmds' = Append(cmds, c)
          /\ before' = board
          /\ \E fen \in {IF c.fen = << >> THEN STARTING_FEN_TEXT ELSE c.fen} :
                IF load_fen_panics(fen)
                THEN /\ outcome' = "panic"
                     /\ UNCHANGED <<board, is_position_set>>
                ELSE IF load_fen_none(fen)
                THEN /\ outcome' = "error: invalid fen"
                     /\ UNCHANGED <<board, is_position_set>>
                ELSE \E r \in {position_moves(load_fen_text(fen), c.moves, 1)} :
                        /\ board' = r.board
                        /\ is_position_set' = TRUE
                        /\ outcome' = IF r.err THEN "error: invalid moves" ELSE "Ok"
    /\ UNCHANGED <<stack, pc, arg, ret, todo, results, entry, text, parsed>>
    /\ UNCHANGED thread_vars

NextUci == HandlePosition

SpecUci == InitUci /\ [][NextUci]_vars

(* ------------------------------------------------------------------ *)
(* uci.rs: UciCommand::try_parse.  The line is given as the sequence    *)
(* of the parts split_ascii_whitespace yields, each part the sequence   *)
(* of its characters; an Option is a set of at most one element.        *)
(* ------------------------------------------------------------------ *)
(* the letters of the commands' names, for #[strum(ascii_case_insensitive)] *)
to_ascii_lowercase(ch) ==
    CASE ch = "D" -> "d" [] ch = "E" -> "e" [] ch = "B" -> "b" [] ch = "U" -> "u"
      [] ch = "G" -> "g" [] ch = "P" -> "p" [] ch = "R" -> "r" [] ch = "F" -> "f"
      [] ch = "T" -> "t" [] ch = "O" -> "o" [] ch = "S" -> "s" [] ch = "I" -> "i"
      [] ch = "N" -> "n" [] ch = "Q" -> "q"
      [] OTHER -> ch

(* UciRawCommand::from_str, as strum derives it *)
UciRawCommand_from_str(s) ==
    LET l == [i \in DOMAIN s |-> to_ascii_lowercase(s[i])]
    IN  CASE l = <<"d", "e", "b", "u", "g">> -> {"Debug"}
          [] l = <<"p", "e", "r", "f", "t">> -> {"Perft"}
          [] l = <<"p", "o", "s", "i", "t", "i", "o", "n">> -> {"Position"}
          [] l = <<"s", "t", "o", "p">> -> {"Stop"}
          [] l = <<"g", "o">> -> {"Go"}
          [] l = <<"q", "u", "i", "t">> -> {"Quit"}
          [] OTHER -> {}

(* UciRawCommand::parse: the first part that names a command, and the parts the
   iterator still holds after it *)
UciRawCommand_parse(cmdline) ==
    LET hits == {i \in DOMAIN cmdline : UciRawCommand_from_str(cmdline[i]) # {}}
    IN  IF hits = {} THEN {}
        ELSE LET i == CHOOSE h \in hits : \A j \in hits : h <= j
             IN  {[raw |-> r, rest |-> SubSeq(cmdline, i + 1, Len(cmdline))] :
                     r \in UciRawCommand_from_str(cmdline[i])}

FEN_PART_COUNT == 6

(* UciFen::from_cmdline: FEN_PART_COUNT parts joined by single spaces, which is what
   load_fen splits again; None when the iterator runs out before *)
from_cmdline(i) ==
    IF Len(i) < FEN_PART_COUNT THEN {}
    ELSE {[fen |-> SubSeq(i, 1, FEN_PART_COUNT), rest |-> SubSeq(i, FEN_PART_COUNT + 1, Len(i))]}

(* UciCommand::position_get_moves_helper: filter_map keeps what UciMove::parse returns
   Some for *)
position_get_moves_helper(i) ==
    IF i = << >> \/ i[1] # <<"m", "o", "v", "e", "s">> THEN << >>
    ELSE LET some(mv) == UciMove_parse(mv) # {}
             kept == SelectSeq(Tail(i), some)
         IN  [k \in DOMAIN kept |-> CHOOSE m \in UciMove_parse(kept[k]) : TRUE]

(* UciCommand::Position { fen, moves }: fen is << >> for None *)
Position(fen, moves) == [tag |-> "Position", fen |-> fen, moves |-> moves]

(* UciCommand::try_parse: the Option it returns, and whether it ran into todo!() *)
try_parse(s) ==
    LET raw == UciRawCommand_parse(s)
        none == [panics |-> FALSE, cmd |-> {}]
    IN  IF raw = {} THEN none
        ELSE LET r == CHOOSE x \in raw : TRUE
                 parts == r.rest
             IN  CASE r.raw \in {"Debug", "Go"} -> [panics |-> TRUE, cmd |-> {}]
                   [] r.raw = "Perft" ->
                        IF parts = << >> THEN none
                        ELSE [panics |-> FALSE,
                              cmd |-> {[tag |-> "Perft", ply |-> n] : n \in parse_usize(parts[1])}]
                   [] r.raw = "Position" ->
                        IF parts = << >> THEN none
                        ELSE IF parts[1] = <<"f", "e", "n">>
                        THEN [panics |-> FALSE,
                              cmd |-> {Position(f.fen, position_get_moves_helper(f.rest)) :
                                          f \in from_cmdline(Tail(parts))}]
                        ELSE IF parts[1] = <<"s", "t", "a", "r", "t", "p", "o", "s">>
                        THEN [panics |-> FALSE,
                              cmd |-> {Position(<< >>, position_get_moves_helper(Tail(parts)))}]
                        ELSE none
                   [] r.raw = "Stop" -> [panics |-> FALSE, cmd |-> {[tag |-> "Stop"]}]
                   [] r.raw = "Quit" -> [panics |-> FALSE, cmd |-> {[tag |-> "Quit"]}]

(* the lines tried: a command name in either case, alone or after a part that names
   no command; for position, startpos or fen with zero to six <<"f", "e", "n">> fields or another
   word, then nothing or `moves` and up to MaxMoves move texts, one of them naming
   no move *)
CommandLines ==
    LET KingsFen == <<KingsPlacement, <<"w">>, <<"-">>, <<"-">>, <<"0">>, <<"1">> >>
        MoveTexts == { <<"e", "2", "e", "4">>, <<"e", "7", "e", "5">>, <<"e", "7", "e", "8", "q">>, <<"z", "z">> }
        MovesTexts ==
            { << >> } \cup { <<<<"m", "o", "v", "e", "s">>>> \o ms :
                               ms \in UNION {[1..n -> MoveTexts] : n \in 0..MaxMoves} }
                       \cup { <<mv>> : mv \in MoveTexts }
    IN  { pre \o <<name>> \o rest :
            pre \in {<< >>, <<<<"i", "s", "r", "e", "a", "d", "y">>>>},
            name \in {<<"p", "o", "s", "i", "t", "i", "o", "n">>, <<"P", "O", "S", "I", "T", "I", "O", "N">>},
            rest \in { pos \o ms :
                         pos \in {<< >>, <<<<"s", "t", "a", "r", "t", "p", "o", "s">>>>,
                                  <<<<"m", "o", "v", "e", "s">>>>}
                                   \cup {<<<<"f", "e", "n">>>> \o SubSeq(KingsFen, 1, n) :
                                            n \in 0..FEN_PART_COUNT},
                         ms \in MovesTexts } }
          \cup { pre \o <<name>> \o rest :
                   pre \in {<< >>, <<<<"i", "s", "r", "e", "a", "d", "y">>>>},
                   name \in {<<"p", "e", "r", "f", "t">>, <<"d", "e", "b", "u", "g">>,
                             <<"s", "t", "o", "p">>, <<"g", "o">>, <<"q", "u", "i", "t">>},
                   rest \in {<< >>, <<<<"2">> >>, <<<<"x">> >>, <<<<"-", "1">> >>} }
          \cup { << >>, <<<<"i", "s", "r", "e", "a", "d", "y">>>> }

InitCmd ==
    /\ text \in CommandLines
    /\ parsed = {}
    /\ pc = "try_parse"
    /\ board = BoardNew
    /\ stack = << >>
    /\ arg = 0
    /\ ret = 0
    /\ todo = << >>
    /\ results = << >>
    /\ entry = board
    /\ before = board
    /\ is_position_set = FALSE
    /\ cmds = << >>
    /\ outcome = "none"
    /\ stdin = << >>
    /\ ctl = << >>
    /\ evt = << >>
    /\ threads = [io |-> "none", engine |-> "none", main |-> "none", seen |-> 0]
    /\ handled = << >>

(* UciCommand::try_parse(text) *)
TryParse ==
    /\ pc = "try_parse"
    /\ \E r \in {try_parse(text)} :
          /\ parsed' = r.cmd
          /\ pc' = IF r.panics THEN "panic" ELSE "parsed"
    /\ UNCHANGED <<board, stack, arg, ret, todo, results, entry, before,
                   text, is_position_set, cmds, outcome>>
    /\ UNCHANGED thread_vars

NextCmd == TryParse

SpecCmd == InitCmd /\ [][NextCmd]_vars

(* ------------------------------------------------------------------ *)
(* main.rs: start_uci and its three threads.  The input thread reads   *)
(* lines and sends the commands try_parse makes of them, the engine     *)
(* thread (run_thread) receives and handles them, start_uci itself      *)
(* takes the events and then waits for the engine thread.  A channel's  *)
(* iterator ends when every Sender of it is dropped: of `ctl` start_uci *)
(* keeps one to its return and the input thread holds the clone io_ctl; *)
(* of `evt` the engine thread holds both.  Nothing sends Terminate or   *)
(* EngineControl::Perft, so `stop` stays false.                         *)
(* ------------------------------------------------------------------ *)
MaxLines == 3

(* UciEngine::handle_command on the engine's board and is_position_set: what they
   become, the Result ("panic" when it unwinds) and the events it sends.  The count
   of a PerftResult is what utils::perft returns.  evt_tx.send cannot fail: start_uci
   holds the Receiver until it returns, which is after the engine thread finished. *)
handle_command(b, set, cmd) ==
    CASE cmd.tag = "Perft" ->
            IF ~set
            THEN [board |-> b, is_position_set |-> set, result |-> "Ok",
                  events |-> <<[tag |-> "Debug", msg |-> "position not set"]>>]
            ELSE LET r == perft(b, cmd.ply)
                 IN  IF r.panics
                     THEN [board |-> r.board, is_position_set |-> set, result |-> "panic",
                           events |-> << >>]
                     ELSE [board |-> r.board, is_position_set |-> set, result |-> "Ok",
                           events |-> <<[tag |-> "PerftResult", depth |-> cmd.ply,
                                         count |-> r.nodes]>>]
      [] cmd.tag = "Position" ->
            LET fen == IF cmd.fen = << >> THEN STARTING_FEN_TEXT ELSE cmd.fen
            IN  IF load_fen_panics(fen)
                THEN [board |-> b, is_position_set |-> set, result |-> "panic", events |-> << >>]
                ELSE IF load_fen_none(fen)
                THEN [board |-> b, is_position_set |-> set, result |-> "error: invalid fen",
                      events |-> << >>]
                ELSE LET r == position_moves(load_fen_text(fen), cmd.moves, 1)
                     IN  [board |-> r.board, is_position_set |-> TRUE,
                          result |-> IF r.err THEN "error: invalid moves" ELSE "Ok",
                          events |-> << >>]
      [] cmd.tag = "Stop" ->
            [board |-> b, is_position_set |-> set, result |-> "panic", events |-> << >>]
      [] OTHER ->
            [board |-> b, is_position_set |-> set, result |-> "Ok", events |-> << >>]

(* the lines typed: quit, stop, perft 0, perft 1, position startpos, position startpos
   with a move no pawn can make, position fen with a clock that is no number, and a
   line that names no command *)
StdinLines ==
    { <<<<"q", "u", "i", "t">>>>,
      <<<<"s", "t", "o", "p">>>>,
      <<<<"p", "e", "r", "f", "t">>, <<"0">>>>,
      <<<<"p", "e", "r", "f", "t">>, <<"1">>>>,
      <<<<"p", "o", "s", "i", "t", "i", "o", "n">>, <<"s", "t", "a", "r", "t", "p", "o", "s">>>>,
      <<<<"p", "o", "s", "i", "t", "i", "o", "n">>, <<"s", "t", "a", "r", "t", "p", "o", "s">>,
        <<"m", "o", "v", "e", "s">>, <<"e", "2", "e", "5">>>>,
      <<<<"p", "o", "s", "i", "t", "i", "o", "n">>, <<"f", "e", "n">>,
        KingsPlacement, <<"w">>, <<"-">>, <<"-">>, <<"x">>, <<"1">>>>,
      <<<<"i", "s", "r", "e", "a", "d", "y">>>> }

(* start_uci has made the channels and spawned both threads; run_thread has made its
   instance: Board::new(), is_position_set: false *)
InitThreads ==
    /\ board = BoardNew
    /\ pc = "threads"
    /\ stack = << >>
    /\ arg = 0
    /\ ret = 0
    /\ todo = << >>
    /\ results = << >>
    /\ entry = board
    /\ before = board
    /\ text = << >>
    /\ parsed = {}
    /\ is_position_set = FALSE
    /\ cmds = << >>
    /\ outcome = "none"
    /\ stdin = << >>
    /\ ctl = << >>
    /\ evt = << >>
    /\ threads = [io |-> "read", engine |-> "loop", main |-> "events", seen |-> 0]
    /\ handled = << >>

(* one turn of the input thread's loop: read_line, try_parse, send(..).unwrap(), break
   after Quit.  todo!() in try_parse and a send to an engine thread that has ended
   (its Receiver dropped) panic. *)
IoRead ==
    /\ pc = "threads"
    /\ threads.io = "read"
    /\ Len(stdin) < MaxLines
    /\ \E line \in StdinLines :
          /\ stdin' = Append(stdin, line)
          /\ \E r \in {try_parse(line)} :
                IF r.panics
                THEN /\ threads' = [threads EXCEPT !.io = "panic"]
                     /\ UNCHANGED ctl
                ELSE IF r.cmd = {}
                THEN UNCHANGED <<threads, ctl>>
                ELSE IF threads.engine # "loop"
                THEN /\ threads' = [threads EXCEPT !.io = "panic"]
                     /\ UNCHANGED ctl
                ELSE \E cmd \in r.cmd :
                        /\ ctl' = Append(ctl, cmd)
                        /\ threads' = [threads EXCEPT
                                          !.io = IF cmd.tag = "Quit" THEN "done" ELSE "read"]
    /\ UNCHANGED <<board, stack, pc, arg, ret, todo, results, entry, before,
                   text, parsed, is_position_set, cmds, outcome, evt, handled>>

(* ctl.iter() in run_thread yields: a message is waiting, or every Sender is dropped
   (the input thread has ended and start_uci has returned) and the iterator ends *)
EngineCanReceive ==
    /\ pc = "threads"
    /\ threads.engine = "loop"
    /\ \/ ctl # << >>
       \/ threads.io \in {"done", "panic"} /\ threads.main = "returned"

(* one turn of `for control in ctl.iter()` in run_thread: the next message is a
   UciCommand, handled by handle_command, an Err sent on as a Debug event; or the
   iterator ends and run_thread returns.  Every such step changes ctl or threads. *)
EngineReceive ==
    /\ EngineCanReceive
    /\ IF ctl # << >>
       THEN \E r \in {handle_command(board, is_position_set, Head(ctl))} :
               \E sent \in {IF r.result \in {"Ok", "panic"} THEN r.events
                            ELSE Append(r.events, [tag |-> "Debug", msg |-> r.result])} :
                  /\ ctl' = Tail(ctl)
                  /\ before' = board
                  /\ board' = r.board
                  /\ is_position_set' = r.is_position_set
                  /\ evt' = evt \o sent
                  /\ handled' = Append(handled,
                                       [cmd |-> Head(ctl), result |-> r.result,
                                        from |-> Len(evt), to |-> Len(evt) + Len(sent),
                                        set |-> is_position_set,
                                        unchanged |-> (r.board = board)])
                  /\ threads' = [threads EXCEPT
                                    !.engine = IF r.result = "panic" THEN "panic" ELSE "loop"]
       ELSE /\ threads' = [threads EXCEPT !.engine = "done"]
            /\ UNCHANGED <<ctl, before, board, is_position_set, evt, handled>>
    /\ UNCHANGED <<stack, pc, arg, ret, todo, results, entry,
                   text, parsed, cmds, outcome, stdin>>

(* one turn of `for event in evt.iter()` in start_uci: the event is printed *)
MainEvent ==
    /\ pc = "threads"
    /\ threads.main = "events"
    /\ threads.seen < Len(evt)
    /\ threads' = [threads EXCEPT !.seen = threads.seen + 1]
    /\ UNCHANGED <<board, stack, pc, arg, ret, todo, results, entry, before,
                   text, parsed, is_position_set, cmds, outcome, stdin, ctl, evt, handled>>

(* evt.iter() ends: no event is left and the engine thread, which holds the Senders,
   has ended *)
MainLoopEnd ==
    /\ pc = "threads"
    /\ threads.main = "events"
    /\ threads.seen = Len(evt)
    /\ threads.engine \in {"done", "panic"}
    /\ threads' = [threads EXCEPT !.main = "wait"]
    /\ UNCHANGED <<board, stack, pc, arg, ret, todo, results, entry, before,
                   text, parsed, is_position_set, cmds, outcome, stdin, ctl, evt, handled>>

(* `while !engine_thread.is_finished() {}` ends and start_uci returns *)
MainReturn ==
    /\ pc = "threads"
    /\ threads.main = "wait"
    /\ threads.engine \in {"done", "panic"}
    /\ threads' = [threads EXCEPT !.main = "returned"]
    /\ UNCHANGED <<board, stack, pc, arg, ret, todo, results, entry, before,
                   text, parsed, is_position_set, cmds, outcome, stdin, ctl, evt, handled>>

NextThreads ==
    \/ IoRead
    \/ EngineReceive
    \/ MainEvent
    \/ MainLoopEnd
    \/ MainReturn

SpecThreads == InitThreads /\ [][NextThreads]_vars

(* the engine thread and start_uci run whenever they can; when a line arrives on
   stdin is up to whoever types it.  The engine thread's condition is
   WF_vars(EngineReceive) with ENABLED <<EngineReceive>>_vars written out as
   EngineCanReceive, which it equals. *)
SpecThreadsFair ==
    /\ SpecThreads
    /\ ([]<>(~EngineCanReceive) \/ []<><<EngineReceive>>_vars)
    /\ WF_vars(MainEvent)
    /\ WF_vars(MainLoopEnd)
    /\ WF_vars(MainReturn)

(* ------------------------------------------------------------------ *)
(* Properties                                                          *)
(* ------------------------------------------------------------------ *)
(* the colour and kind bitboards and the mailbox *)
SamePlacement(a, b) ==
    /\ \A i \in 0..7 : a.bitboards[i] = b.bitboards[i]
    /\ a.squares = b.squares

(* placement, side to move, castling rights, en-passant target and both clocks *)
SamePosition(a, b) ==
    /\ SamePlacement(a, b)
    /\ a.turn = b.turn
    /\ a.castling_availability = b.castling_availability
    /\ a.en_passant = b.en_passant
    /\ a.halfmove_count = b.halfmove_count
    /\ a.move_count = b.move_count

SameAttackBoards(a, b) ==
    /\ a.bitboards[8] = b.bitboards[8]
    /\ a.bitboards[9] = b.bitboards[9]

(* a call of depth 1 has just unmade the move it had made: the recursive call in
   between was perft(_, _, 0), which touches nothing *)
JustUnmade == pc = "loop" /\ Top.depth = 1 /\ Top.nodes > 0

(* C1: do_move(m) followed by undo_move(m), for a move m generated for the side to
   move, leaves every field of the Board as it was before do_move: the colour, kind
   and attack bitboards, the mailbox, turn, castling_availability, en_passant,
   halfmove_count and move_count *)
C1_DoUndoRestoresBoard ==
    JustUnmade => SamePosition(board, before) /\ SameAttackBoards(board, before)

(* C2: when the outermost perft(board, d, d) has returned, the piece placement, turn,
   castling_availability, en_passant, halfmove_count and move_count are what they
   were before the call *)
C2_PerftRestoresPosition ==
    (pc = "idle" /\ results # << >>) => SamePosition(board, entry)

(* tests.rs: the expected node counts, indexed by depth (RESULTS[depth]) *)
RESULTS == <<1, 20, 400, 8902, 197281>>

(* C3: from the standard start position perft returns 20, 400, 8902 and 197281 at
   depths 1, 2, 3 and 4, the depths being run one after another on the same board *)
C3_StartposPerft ==
    \A i \in DOMAIN results : results[i] = RESULTS[i + 1]

(* all four depths have been run *)
C3_Witness == pc = "idle" /\ todo = << >> /\ Len(results) = TestDepth

(* do_move has just been applied to the move in hand; `before` is the Board it was
   applied to *)
JustMade == stack # << >> /\ (pc = "call" \/ (pc = "ret" /\ Top.depth = 1))

Abs(x) == IF x < 0 THEN -x ELSE x

Sgn(x) == IF x < 0 THEN -1 ELSE IF x > 0 THEN 1 ELSE 0

(* the squares strictly between two squares of one rank, file or diagonal *)
Between(a, b) ==
    LET df == file(b) - file(a)
        dr == rank(b) - rank(a)
        n == IF Abs(df) > Abs(dr) THEN Abs(df) ELSE Abs(dr)
    IN  {s \in Squares : \E k \in 1..(n - 1) :
            file(s) = file(a) + k * Sgn(df) /\ rank(s) = rank(a) + k * Sgn(dr)}

OnLine(a, b) == a # b /\ (file(a) = file(b) \/ rank(a) = rank(b))

OnDiagonal(a, b) == a # b /\ Abs(file(a) - file(b)) = Abs(rank(a) - rank(b))

(* by the rules of chess: some piece of colour `by` attacks square sq *)
Attacked(b, by, sq) ==
    \/ \E p \in get_piece_set(b, Pawn, by) :
          /\ Abs(file(p) - file(sq)) = 1
          /\ rank(sq) = rank(p) + (IF by = White THEN 1 ELSE -1)
    \/ \E p \in get_piece_set(b, Knight, by) :
          {Abs(file(p) - file(sq)), Abs(rank(p) - rank(sq))} = {1, 2}
    \/ \E p \in get_piece_set(b, King, by) :
          p # sq /\ Abs(file(p) - file(sq)) <= 1 /\ Abs(rank(p) - rank(sq)) <= 1
    \/ \E p \in get_piece_set(b, Rook, by) \cup get_piece_set(b, Queen, by) :
          OnLine(p, sq) /\ Between(p, sq) \cap all_pieces_any(b) = {}
    \/ \E p \in get_piece_set(b, Bishop, by) \cup get_piece_set(b, Queen, by) :
          OnDiagonal(p, sq) /\ Between(p, sq) \cap all_pieces_any(b) = {}

(* C4: after do_move of a move that generate_moves returned for the side to move,
   the king of the side that has just moved is attacked by no piece of the side now
   to move: every generated move is legal *)
C4_GeneratedMovesLegal ==
    JustMade =>
        \A k \in get_piece_set(board, King, opponent(board.turn)) :
            ~Attacked(board, board.turn, k)

Kinds == {ALL[i] : i \in DOMAIN ALL}

(* C5: in every position reached from a loaded FEN by do_move of generated moves and
   undo_move, the White and the Black colour bitboard have no square in common *)
C5_ColoursDisjoint == board.bitboards[White] \cap board.bitboards[Black] = {}

(* C6: in every reachable position the union of the six kind bitboards equals the
   union of the two colour bitboards, and every square of a colour bitboard is in
   exactly one kind bitboard *)
C6_KindsPartitionColours ==
    /\ UNION {board.bitboards[k] : k \in Kinds} = all_pieces_any(board)
    /\ \A s \in all_pieces_any(board) :
          Cardinality({k \in Kinds : s \in board.bitboards[k]}) = 1

(* C7: in every reachable position the mailbox and the bitboards agree: squares[s] is
   Some((c, k)) exactly when s is in colour board c and kind board k, and None
   exactly when s is in no colour board *)
C7_MailboxAgrees ==
    \A s \in Squares :
        /\ \A c \in {White, Black} : \A k \in Kinds :
              board.squares[s] = <<c, k>>
                  <=> (s \in board.bitboards[c] /\ s \in board.bitboards[k])
        /\ board.squares[s] = None <=> s \notin all_pieces_any(board)

(* C8: in every position reached from a legal FEN by generated moves each colour has
   exactly one king, so that the assertions count_ones() == 1 of king_square and
   king_moves never fail *)
C8_ExactlyOneKing ==
    \A c \in {White, Black} : Cardinality(get_piece_set(board, King, c)) = 1

(* the rook's home square of colour c on side k (1: king side, 2: queen side) *)
RookHome(c, k) == CASTLING_SQUARES[c + 1][k][2]

(* C9: after do_move of a king move by colour c both castling rights of c are false;
   after do_move of a rook of c leaving its home square the right of that side is
   false; after do_move capturing a rook of c on its home square the right of that
   side is false; in all other cases do_move leaves the rights as they were; and a
   right that is false is not true in the next position of the line *)
C9_DoMoveRevokesCastling ==
    JustMade =>
        LET mv == CurrentMove
            c == before.turn
            o == opponent(c)
            mover == before.squares[mv.starting_square]
            taken == before.squares[mv.target_square]
            king_move == mover = <<c, King>>
            rook_leaves(k) == mover = <<c, Rook>> /\ mv.starting_square = RookHome(c, k)
            rook_taken(k) ==
                /\ mv.flag = FlagCapture(Rook)
                /\ taken = <<o, Rook>>
                /\ mv.target_square = RookHome(o, k)
            was(x, k) == before.castling_availability[x + 1][k]
            now(x, k) == board.castling_availability[x + 1][k]
        IN  \A k \in 1..2 :
               /\ (king_move \/ rook_leaves(k)) => ~now(c, k)
               /\ rook_taken(k) => ~now(o, k)
               /\ ~(king_move \/ rook_leaves(k)) => now(c, k) = was(c, k)
               /\ ~rook_taken(k) => now(o, k) = was(o, k)
               /\ \A x \in {White, Black} : now(x, k) => was(x, k)

(* C10: generate_moves(c) and prepare() do not mutate the position: the colour and
   kind bitboards, the mailbox, turn, castling_availability, en_passant,
   halfmove_count and move_count are as before the call, and of the two attack caches
   only that of the generated colour may differ *)
C10_GenerationKeepsPosition ==
    (pc = "call" /\ arg > 0 /\ ~prepare_panics(board)) =>
        LET b1 == prepare(board)
        IN  /\ SamePosition(b1, board)
            /\ b1.bitboards[ad_bitboard(board.turn)] = board.bitboards[ad_bitboard(board.turn)]
            /\ ~generate_moves_panics(b1, b1.turn) =>
                  LET b2 == generate_moves_board(b1, b1.turn)
                  IN  /\ SamePosition(b2, b1)
                      /\ b2.bitboards[ad_bitboard(opponent(b1.turn))]
                             = b1.bitboards[ad_bitboard(opponent(b1.turn))]

(* mv moves a pawn of the side to move in b two ranks straight ahead *)
DoublePush(b, mv) ==
    /\ mv.starting_square \in get_piece_set(b, Pawn, b.turn)
    /\ file(mv.target_square) = file(mv.starting_square)
    /\ rank(mv.target_square) - rank(mv.starting_square)
          = (IF b.turn = White THEN 2 ELSE -2)

(* the square a double push passes over *)
Skipped(mv) == (mv.starting_square + mv.target_square) \div 2

(* C11: after do_move of a pawn double push the en-passant target is exactly the
   square the pawn skipped; after do_move of any other move it is empty, so that a
   target set on one ply is cleared on the next *)
C11_EnPassantTarget ==
    JustMade =>
        IF DoublePush(before, CurrentMove)
        THEN board.en_passant = {Skipped(CurrentMove)}
        ELSE board.en_passant = {}

(* a double push was made one ply ago and set the target; the move just made is no
   double push and the target is gone *)
C11_Witness ==
    /\ JustMade
    /\ Len(stack) >= 2
    /\ LET prev == Head(stack[Len(stack) - 1].moves)
       IN  /\ rank(prev.target_square) - rank(prev.starting_square) \in {2, -2}
           /\ before.en_passant = {Skipped(prev)}
    /\ ~DoublePush(before, CurrentMove)
    /\ board.en_passant = {}

(* perft is about to call board.prepare() and board.generate_moves(board.turn), and
   neither call panics *)
AtGeneration ==
    /\ pc = "call"
    /\ arg > 0
    /\ ~prepare_panics(board)
    /\ ~generate_moves_panics(prepare(board), board.turn)

(* the Board generate_moves(board.turn) is called on *)
Prepared == prepare(board)

(* the moves that call returns *)
Generated == generate_moves(Prepared, board.turn)

(* the squares the king of c passes in castling: origin, crossed square, destination *)
KingPath(c, method) ==
    {CASTLING_SQUARES[c + 1][method + 1][1],
     castling_squares(c, method)[2],
     castling_squares(c, method)[1]}

(* C12: generate_moves emits a Castle move only if no square the king traverses
   (origin, crossed square, destination) is attacked by the opponent in the current
   position *)
C12_NoCastlingThroughAttack ==
    AtGeneration =>
        \A i \in DOMAIN Generated :
            Generated[i].flag.tag = "Castle" =>
                \A sq \in KingPath(board.turn, Generated[i].flag.arg) :
                    ~Attacked(Prepared, opponent(board.turn), sq)

(* C13: generate_moves emits Castle(Short) only when the side's king-side right is
   held and Castle(Long) only when its queen-side right is held *)
C13_CastlingNeedsItsRight ==
    AtGeneration =>
        \A i \in DOMAIN Generated :
            Generated[i].flag.tag = "Castle" =>
                Prepared.castling_availability[board.turn + 1][Generated[i].flag.arg + 1]

(* C14: generate_moves emits a Castle move only if every square between the king and
   the castling rook is empty, occupied by no piece of either colour *)
C14_CastlingNeedsEmptySquares ==
    AtGeneration =>
        \A i \in DOMAIN Generated :
            Generated[i].flag.tag = "Castle" =>
                CASTLING_SQUARES[board.turn + 1][Generated[i].flag.arg + 1][3]
                    \cap all_pieces_any(Prepared) = {}

(* C15: do_move of a generated Castle move takes the king from the e-file two files
   towards the rook and the rook from its home square to the square the king
   crossed, in the colour and kind bitboards and in the mailbox, and leaves every
   other square as it was *)
C15_CastlingRelocates ==
    (JustMade /\ CurrentMove.flag.tag = "Castle") =>
        LET c == before.turn
            cs == CASTLING_SQUARES[c + 1][CurrentMove.flag.arg + 1]
            e == cs[1]
            home == cs[2]
            step == Sgn(file(home) - file(e))
            crossed == SquareNew(file(e) + step, rank(e))
            dest == SquareNew(file(e) + step + step, rank(e))
        IN  /\ e \in get_piece_set(before, King, c)
            /\ home \in get_piece_set(before, Rook, c)
            /\ board.bitboards[c] = (before.bitboards[c] \ {e, home}) \cup {dest, crossed}
            /\ board.bitboards[King] = (before.bitboards[King] \ {e}) \cup {dest}
            /\ board.bitboards[Rook] = (before.bitboards[Rook] \ {home}) \cup {crossed}
            /\ \A i \in (0..7) \ {c, King, Rook} : board.bitboards[i] = before.bitboards[i]
            /\ board.squares = [s \in Squares |->
                                  IF s = dest THEN <<c, King>>
                                  ELSE IF s = crossed THEN <<c, Rook>>
                                  ELSE IF s \in {e, home} THEN None
                                  ELSE before.squares[s]]

(* Black has just castled to the queen side *)
C15_Witness ==
    /\ JustMade
    /\ CurrentMove.flag = FlagCastle(Long)
    /\ before.turn = Black
    /\ castling_squares(Black, Long)[1] \in get_piece_set(board, King, Black)

(* by the rules of chess: the squares of the pieces of colour `by` that attack sq *)
Attackers(b, by, sq) ==
    {p \in get_piece_set(b, Pawn, by) :
          /\ Abs(file(p) - file(sq)) = 1
          /\ rank(sq) = rank(p) + (IF by = White THEN 1 ELSE -1)}
    \cup {p \in get_piece_set(b, Knight, by) :
          {Abs(file(p) - file(sq)), Abs(rank(p) - rank(sq))} = {1, 2}}
    \cup {p \in get_piece_set(b, King, by) :
          p # sq /\ Abs(file(p) - file(sq)) <= 1 /\ Abs(rank(p) - rank(sq)) <= 1}
    \cup {p \in get_piece_set(b, Rook, by) \cup get_piece_set(b, Queen, by) :
          OnLine(p, sq) /\ Between(p, sq) \cap all_pieces_any(b) = {}}
    \cup {p \in get_piece_set(b, Bishop, by) \cup get_piece_set(b, Queen, by) :
          OnDiagonal(p, sq) /\ Between(p, sq) \cap all_pieces_any(b) = {}}

(* the opponent's pieces that give check to the side to move *)
Checkers == Attackers(Prepared, opponent(board.turn), king_square(Prepared, board.turn))

(* C16: when the king of the side to move is attacked by two or more opponent pieces,
   every move generate_moves emits for that side is a king move *)
C16_DoubleCheckKingMovesOnly ==
    (AtGeneration /\ Cardinality(Checkers) >= 2) =>
        \A i \in DOMAIN Generated :
            Generated[i].starting_square = king_square(Prepared, board.turn)

(* C17: when the king of the side to move is attacked by exactly one opponent piece,
   every non-king move generate_moves emits has its target on the check ray: a
   square between the king and the checker, or the checker's own square *)
C17_SingleCheckOnRay ==
    (AtGeneration /\ Cardinality(Checkers) = 1) =>
        \A i \in DOMAIN Generated :
            Generated[i].starting_square # king_square(Prepared, board.turn) =>
                \E ch \in Checkers :
                    Generated[i].target_square
                        \in Between(king_square(Prepared, board.turn), ch) \cup {ch}

(* by the rules of chess: the pairs <<p, s>> of a piece p of colour c and an opposing
   rook, bishop or queen s such that p alone stands between s and the king of c on a
   line s moves along *)
Pins(b, c) ==
    LET k == king_square(b, c)
        o == opponent(c)
        liners == get_piece_set(b, Rook, o) \cup get_piece_set(b, Queen, o)
        diagonals == get_piece_set(b, Bishop, o) \cup get_piece_set(b, Queen, o)
    IN  {ps \in all_pieces(b, c) \X (liners \cup diagonals) :
            /\ \/ ps[2] \in liners /\ OnLine(k, ps[2])
               \/ ps[2] \in diagonals /\ OnDiagonal(k, ps[2])
            /\ Between(k, ps[2]) \cap all_pieces_any(b) = {ps[1]}}

(* C18: for a piece pinned to its own king, generate_moves emits exactly those of its
   pseudo-legal moves whose target is on the pin ray (a square between king and
   pinner, or the pinner's square), and no move off that ray *)
C18_PinnedMovesAlongRay ==
    (AtGeneration /\ Checkers = {}) =>
        \A ps \in Pins(Prepared, board.turn) :
            {Generated[i].target_square :
                i \in {j \in DOMAIN Generated : Generated[j].starting_square = ps[1]}}
              = (move_bitboards_entry(Prepared, board.turn, ps[1])
                    \ pieces(Prepared, board.turn))
                  \cap (Between(king_square(Prepared, board.turn), ps[2]) \cup {ps[2]})

(* the Board without the king of colour c in its bitboards *)
WithoutKing(b, c) ==
    [b EXCEPT !.bitboards = [@ EXCEPT ![c] = @ \ {king_square(b, c)},
                                      ![King] = @ \ {king_square(b, c)}]]

(* C19: generate_moves emits a king move to a square t iff t holds no piece of the
   king's colour and t is not attacked by the opponent, the opponent's attacks being
   taken with the moving king removed from the occupancy *)
C19_KingMovesAvoidAttacks ==
    AtGeneration =>
        LET c == board.turn
            k == king_square(Prepared, c)
            emitted == {Generated[i].target_square :
                          i \in {j \in DOMAIN Generated :
                                    /\ Generated[j].starting_square = k
                                    /\ Generated[j].flag.tag # "Castle"}}
        IN  \A t \in Squares :
               (t # k /\ Abs(file(t) - file(k)) <= 1 /\ Abs(rank(t) - rank(k)) <= 1) =>
                   (t \in emitted <=>
                       /\ t \notin all_pieces(Prepared, c)
                       /\ ~Attacked(WithoutKing(Prepared, c), opponent(c), t))

(* by the rules of chess: the squares the pawn on p of colour c can go to, by a push
   to the empty square ahead or by a capture of an opposing piece diagonally ahead,
   for a pawn that has left its home rank *)
PawnDestinations(b, c, p) ==
    LET ahead == rank(p) + (IF c = White THEN 1 ELSE -1)
    IN  {t \in Squares :
            /\ rank(t) = ahead
            /\ \/ file(t) = file(p) /\ t \notin all_pieces_any(b)
               \/ Abs(file(t) - file(p)) = 1 /\ t \in all_pieces(b, opponent(c))}

(* C20: for a pawn one step from its promotion rank, each destination it can reach by
   pushing or by capturing yields exactly four emitted moves, one for each of Queen,
   Rook, Bishop and Knight, and no other move to that destination *)
C20_FourPromotionsPerDestination ==
    (AtGeneration /\ Checkers = {}) =>
        \A p \in get_piece_set(Prepared, Pawn, board.turn) :
            (/\ rank(p) + (IF board.turn = White THEN 1 ELSE -1) = promotion_rank(board.turn)
             /\ \A ps \in Pins(Prepared, board.turn) : ps[1] # p) =>
                \A t \in PawnDestinations(Prepared, board.turn, p) :
                    LET at == {i \in DOMAIN Generated :
                                  /\ Generated[i].starting_square = p
                                  /\ Generated[i].target_square = t}
                    IN  /\ Cardinality(at) = Cardinality({Queen, Rook, Bishop, Knight})
                        /\ {Generated[i].flag : i \in at}
                              = {FlagPromotion(k) : k \in {Queen, Rook, Bishop, Knight}}

(* C21: after do_move of a generated move whose destination held a piece of the
   opponent (a capturing promotion included) that piece is gone from the opponent's
   colour bitboard and from its kind bitboard, and the mailbox entry of the
   destination holds a piece of the mover; after an en-passant capture the pawn
   removed is the one on the square one rank behind the destination *)
C21_CaptureRemovesPiece ==
    JustMade =>
        LET mv == CurrentMove
            mover == before.turn
            t == mv.target_square
        IN  /\ (mv.flag.tag # "Castle" /\ t \in all_pieces(before, opponent(mover))) =>
                  /\ t \notin all_pieces(board, opponent(mover))
                  /\ \A k \in Kinds :
                        (t \in get_piece_set_any(before, k) /\ board.squares[t] # <<mover, k>>)
                            => t \notin get_piece_set_any(board, k)
                  /\ board.squares[t] # None
                  /\ board.squares[t][1] = mover
            /\ mv.flag.tag = "EnPassant" =>
                  LET behind == SquareNew(file(t), rank(t) - (IF mover = White THEN 1 ELSE -1))
                  IN  /\ behind \in get_piece_set(before, Pawn, opponent(mover))
                      /\ behind \notin all_pieces_any(board)
                      /\ board.squares[behind] = None
                      /\ all_pieces(board, opponent(mover))
                            = all_pieces(before, opponent(mover)) \ {behind}

(* the en-passant capture mv of colour c takes both pawns off the rank of c's king and
   so opens that rank between the king and a rook or queen of the opponent *)
EnPassantExposes(b, c, mv) ==
    LET k == king_square(b, c)
        occ == (all_pieces_any(b) \ {mv.starting_square, mv.flag.arg}) \cup {mv.target_square}
    IN  \E p \in get_piece_set(b, Rook, opponent(c)) \cup get_piece_set(b, Queen, opponent(c)) :
            /\ p # k
            /\ rank(p) = rank(k)
            /\ {mv.starting_square, mv.flag.arg} \subseteq Between(k, p)
            /\ Between(k, p) \cap occ = {}

(* C22: generate_moves emits no en-passant capture that, by taking the capturing and
   the captured pawn off the rank of the mover's king, exposes that king to a rook or
   queen of the opponent on that rank *)
C22_NoExposingEnPassant ==
    AtGeneration =>
        \A i \in DOMAIN Generated :
            Generated[i].flag.tag = "EnPassant"
                => ~EnPassantExposes(Prepared, board.turn, Generated[i])

(* two squares are neighbours: a king on one can step to the other *)
Adjacent(a, b) == a # b /\ Abs(file(a) - file(b)) <= 1 /\ Abs(rank(a) - rank(b)) <= 1

(* C23: generate_moves for the side to move emits no move of the king, a capture
   included, to a square adjacent to the king of the opponent *)
C23_NoKingNextToKing ==
    AtGeneration =>
        \A i \in DOMAIN Generated :
            (/\ Generated[i].starting_square = king_square(Prepared, board.turn)
             /\ Generated[i].flag.tag # "Castle") =>
                \A k \in get_piece_set(Prepared, King, opponent(board.turn)) :
                    ~Adjacent(Generated[i].target_square, k)

(* by the rules of chess: the squares some piece of colour `by` attacks or defends
   under the occupancy of b *)
AttackSet(b, by) == {sq \in Squares : Attacked(b, by, sq)}

(* C24: the attack bitboard of the opponent that generate_moves, in_check and
   can_castle_* of the side to move read in perft, after prepare(), is the set of
   squares the opponent's pieces attack or defend under the current occupancy *)
C24_AttackBoardCurrent ==
    AtGeneration =>
        Prepared.bitboards[ad_bitboard(opponent(board.turn))]
            = AttackSet(Prepared, opponent(board.turn))

(* C25: do_move increments the fullmove counter move_count exactly when the move was
   made by Black, and leaves it unchanged when the move was made by White *)
C25_FullmoveCounter ==
    JustMade =>
        board.move_count = before.move_count + (IF before.turn = Black THEN 1 ELSE 0)

(* mv, made on b, moves a pawn or captures: by en passant, by its Capture flag, or by
   landing on a piece of the opponent *)
PawnMoveOrCapture(b, mv) ==
    \/ get_piece_type(b, mv.starting_square) = Pawn
    \/ mv.flag.tag \in {"Capture", "EnPassant"}
    \/ mv.flag.tag # "Castle" /\ mv.target_square \in all_pieces(b, opponent(b.turn))

(* C26: do_move sets halfmove_count to 0 when the move is a pawn move or a capture
   and otherwise increments it by one *)
C26_HalfmoveClock ==
    JustMade =>
        board.halfmove_count
            = (IF PawnMoveOrCapture(before, CurrentMove) THEN 0 ELSE before.halfmove_count + 1)

(* the square a two-character text names in long algebraic notation: a file letter
   a..h and a rank digit 1..8 *)
NamesSquare(s) ==
    /\ s[1] \in {"a", "b", "c", "d", "e", "f", "g", "h"}
    /\ s[2] \in {"1", "2", "3", "4", "5", "6", "7", "8"}

SquareNamed(s) == SquareNew(FileOfLetter(s[1]), DigitValue[s[2]] - 1)

(* the piece a promotion letter of long algebraic notation stands for *)
PromotionOfLetter(c) ==
    CASE c = "q" -> Queen [] c = "r" -> Rook [] c = "b" -> Bishop [] c = "n" -> Knight

(* C27: UciMove::parse accepts a five-character move from-square, to-square and
   promotion letter q, r, b or n, and returns the UciMove of the two squares whose
   promotion is Queen, Rook, Bishop or Knight respectively *)
C27_ParsePromotion ==
    (/\ pc = "parsed"
     /\ Len(text) = 5
     /\ NamesSquare(SubSeq(text, 1, 2))
     /\ NamesSquare(SubSeq(text, 3, 4))
     /\ text[5] \in {"q", "r", "b", "n"}) =>
        parsed = {UciMove(SquareNamed(SubSeq(text, 1, 2)), SquareNamed(SubSeq(text, 3, 4)),
                          PromotionOfLetter(text[5]))}

(* C28: UciMove::parse returns None for every move string whose promotion letter, the
   fifth character, stands for the King or for the Pawn, whatever its squares are *)
C28_ParseRejectsKingPromotion ==
    (/\ pc = "parsed"
     /\ Len(text) >= 5
     /\ text[5] \in {"k", "K", "p", "P"}) =>
        parsed = {}

(* the command handle_command was last called with, and the FEN it loads *)
LastCommand == cmds[Len(cmds)]

LastFen == IF LastCommand.fen = << >> THEN STARTING_FEN_TEXT ELSE LastCommand.fen

(* C29: when the move list of a Position command holds a move that is not a legal move
   of the position reached so far, handle_command fails and the engine's board is the
   position as it was before the replay began, that is as loaded from the FEN: none
   of the earlier moves of the list remains applied *)
C29_IllegalMoveRollsBack ==
    (cmds # << >> /\ outcome = "error: invalid moves") =>
        SamePosition(board, load_fen_text(LastFen))

(* the shapes of malformed FEN the claim names *)
Malformed(parts) ==
    \/ Len(parts) < 6
    \/ \E i \in DOMAIN parts[1] :
          parts[1][i] \notin {"p", "n", "b", "r", "q", "k", "P", "N", "B", "R", "Q", "K", "/",
                              "1", "2", "3", "4", "5", "6", "7", "8"}
    \/ parts[2] \notin {<<"w">>, <<"b">>}
    \/ parts[4] # <<"-">> /\ ~NamesSquare(parts[4])
    \/ parse_usize(parts[5]) = {}
    \/ parse_usize(parts[6]) = {}

(* C30: given a malformed FEN, load_fen returns no Position (handle_command fails with
   "error: invalid fen"), and the engine's board and is_position_set are as they were
   before the Position command *)
C30_MalformedFenRejected ==
    (cmds # << >> /\ Malformed(LastFen)) =>
        /\ outcome = "error: invalid fen"
        /\ board = before
        /\ is_position_set = (Len(cmds) > 1 /\ \E i \in 1..(Len(cmds) - 1) :
                                 LET f == IF cmds[i].fen = << >> THEN STARTING_FEN_TEXT ELSE cmds[i].fen
                                 IN  ~load_fen_panics(f) /\ ~load_fen_none(f))

(* the parts of a line after its first part `moves`, none when it has no such part *)
AfterMoves(line) ==
    LET at == {i \in DOMAIN line : line[i] = <<"m", "o", "v", "e", "s">>}
    IN  IF at = {} THEN << >>
        ELSE SubSeq(line, (CHOOSE i \in at : \A j \in at : i <= j) + 1, Len(line))

(* the line is a position command: its first part that names a command names Position *)
IsPositionLine(line) ==
    \E r \in UciRawCommand_parse(line) : r.raw = "Position"

(* C31: when the moves of a position command hold a text that is not a valid
   long-algebraic move (UciMove::parse returns None for it), try_parse fails for the
   command: it returns no command whose move list is the remaining moves *)
C31_InvalidMoveFailsParsing ==
    (/\ pc = "parsed"
     /\ IsPositionLine(text)
     /\ \E j \in DOMAIN AfterMoves(text) : UciMove_parse(AfterMoves(text)[j]) = {}) =>
        parsed = {}

(* the FEN fields of a `position fen` line: the parts between `fen` and `moves` *)
FenFields(line) ==
    LET rest == Tail((CHOOSE r \in UciRawCommand_parse(line) : TRUE).rest)
        at == {i \in DOMAIN rest : rest[i] = <<"m", "o", "v", "e", "s">>}
    IN  IF at = {} THEN rest
        ELSE SubSeq(rest, 1, (CHOOSE i \in at : \A j \in at : i <= j) - 1)

IsFenLine(line) ==
    \E r \in UciRawCommand_parse(line) :
        r.raw = "Position" /\ r.rest # << >> /\ r.rest[1] = <<"f", "e", "n">>

(* a move text of long algebraic notation, and the move it denotes *)
WellFormedMove(mv) ==
    /\ Len(mv) \in {4, 5}
    /\ NamesSquare(SubSeq(mv, 1, 2))
    /\ NamesSquare(SubSeq(mv, 3, 4))
    /\ Len(mv) = 5 => mv[5] \in {"q", "r", "b", "n"}

MoveDenoted(mv) ==
    UciMove(SquareNamed(SubSeq(mv, 1, 2)), SquareNamed(SubSeq(mv, 3, 4)),
            IF Len(mv) = 5 THEN PromotionOfLetter(mv[5]) ELSE 0)

(* C32: try_parse returns None for `position fen` followed by fewer than six FEN
   fields, and for `position startpos moves m1 ... mn` with well-formed moves it
   returns the Position command without FEN whose move list is m1 ... mn in the
   order given *)
C32_TryParsePosition ==
    /\ (pc = "parsed" /\ IsFenLine(text) /\ Len(FenFields(text)) < 6) => parsed = {}
    /\ (/\ pc = "parsed"
        /\ Len(text) >= 3
        /\ SubSeq(text, 1, 3) = << <<"p", "o", "s", "i", "t", "i", "o", "n">>,
                                   <<"s", "t", "a", "r", "t", "p", "o", "s">>,
                                   <<"m", "o", "v", "e", "s">> >>
        /\ \A j \in 4..Len(text) : WellFormedMove(text[j])) =>
           parsed = {Position(<< >>, [k \in 1..(Len(text) - 3) |-> MoveDenoted(text[k + 3])])}

(* the outermost call perft(entry, d, d), d > 0, has finished its loop and is about to
   return Top.nodes *)
OutermostDone == pc = "loop" /\ Len(stack) = 1 /\ Top.moves = << >>

RECURSIVE SumNodes(_, _, _, _)
SumNodes(b, moves, depth, i) ==
    IF i > Len(moves) THEN 0
    ELSE perft(do_move(b, moves[i]), depth).nodes + SumNodes(b, moves, depth, i + 1)

(* the sum the claim names: over every move generated for the side to move in the
   position perft was called on, perft at depth - 1 on the position after that move *)
SumOverMoves(b, depth) ==
    LET b1 == prepare(b)
    IN  SumNodes(generate_moves_board(b1, b1.turn), generate_moves(b1, b1.turn), depth - 1, 1)

(* no unwrap of perft fails below the outermost call, so that every term of the sum
   is a value perft returns *)
NoPanicBelow(b, depth) ==
    LET b1 == prepare(b)
        g == generate_moves_board(b1, b1.turn)
        moves == generate_moves(b1, b1.turn)
    IN  \A i \in DOMAIN moves :
           ~do_move_panics(g, moves[i]) /\ ~perft(do_move(g, moves[i]), depth - 1).panics

(* C33: perft with depth 0 returns 1 and leaves the board alone, and perft with depth
   n > 0 returns the sum, over the moves generated for the side to move, of perft at
   depth n - 1 on the position after each move: every move is made on the position
   the moves were generated for, the one before it having been undone *)
C33_PerftContract ==
    /\ [][(pc = "call" /\ arg = 0) => (pc' = "ret" /\ ret' = 1 /\ board' = board)]_vars
    /\ []((OutermostDone /\ NoPanicBelow(entry, Top.depth)) =>
             Top.nodes = SumOverMoves(entry, Top.depth))

(* the generated moves that are not castling moves, in the order generated *)
NotCastling(moves) == SelectSeq(moves, LAMBDA m : m.flag.tag # "Castle")

(* C34: the sequence generate_moves returns is fixed by the position: apart from the
   castling moves, which come first, it is in ascending order of the starting square
   and, for one starting square, of the target square, and it holds no move twice *)
C34_GenerationOrdered ==
    AtGeneration =>
        \A all \in {Generated} : \A moves \in {NotCastling(all)} :
            /\ \A i \in DOMAIN all : all[i].flag.tag = "Castle" => i <= Len(all) - Len(moves)
            /\ \A i, j \in DOMAIN moves :
                  i < j =>
                     /\ moves[i] # moves[j]
                     /\ \/ moves[i].starting_square < moves[j].starting_square
                        \/ /\ moves[i].starting_square = moves[j].starting_square
                           /\ moves[i].target_square <= moves[j].target_square

C34_Witness ==
    /\ AtGeneration
    /\ Len(Generated) > 3
    /\ Generated[1].flag.tag = "Castle"
    /\ \E i \in DOMAIN Generated : Generated[i].starting_square < Generated[1].starting_square
    /\ \E i, j \in DOMAIN Generated :
          /\ Generated[i].starting_square = Generated[j].starting_square
          /\ Generated[i].target_square < Generated[j].target_square
          /\ Generated[i].flag.tag # "Castle"

(* the squares on the rays of a piece of kind p on s, from s up to and including the
   first occupied square of each ray *)
RaySquares(b, p, s) ==
    {t \in Squares \ {s} :
        /\ \/ p \in {Rook, Queen} /\ OnLine(s, t)
           \/ p \in {Bishop, Queen} /\ OnDiagonal(s, t)
        /\ Between(s, t) \cap all_pieces_any(b) = {}}

(* C35: for every bishop, rook and queen of the side generate_moves is called for,
   the move set it computes (slider_moves masked with possible_moves) is the union
   over the piece's rays of the squares up to and including the first occupied one,
   without the squares that hold a piece of its own colour; so it holds no square
   that a shift reached by wrapping from file A to file H or back *)
C35_SliderMoveSet ==
    AtGeneration =>
        \A b \in {Prepared} :
            \A p \in {Bishop, Rook, Queen} :
                \A s \in get_piece_set(b, p, b.turn) :
                    slider_entry(b, b.turn, p, s) = RaySquares(b, p, s) \ pieces(b, b.turn)

(* C36: the checker count pinned_pieces returns for the side to move is the number of
   opponent pieces attacking that side's king: knights, pawns, and bishops, rooks and
   queens with a clear line of their kind to the king, wherever the king stands *)
C36_CheckerCount ==
    AtGeneration =>
        \A b \in {Prepared} :
            pinned_pieces(b, b.turn).checks =
                Cardinality(Attackers(b, opponent(b.turn), king_square(b, b.turn))
                                \ get_piece_set(b, King, opponent(b.turn)))

(* the square one rank behind sq, seen from the side c that moves to sq *)
Behind(sq, c) == SquareNew(file(sq), rank(sq) - (IF c = White THEN 1 ELSE -1))

(* C37: every EnPassant(sq) move generated for the side to move names the square one
   rank behind its destination, seen from the mover, and an opponent pawn stands
   there; the assertions other_pawn == _t of do_move and undo_move hold for it, and
   do_move takes exactly that one opponent pawn off the board *)
C37_EnPassantSquare ==
    /\ AtGeneration =>
          \A moves \in {Generated} : \A i \in DOMAIN moves :
              moves[i].flag.tag = "EnPassant" =>
                 /\ moves[i].flag.arg = Behind(moves[i].target_square, board.turn)
                 /\ Prepared.squares[moves[i].flag.arg] = <<opponent(board.turn), Pawn>>
                 /\ moves[i].flag.arg \in get_piece_set(Prepared, Pawn, opponent(board.turn))
    /\ (pc = "loop" /\ Top.moves # << >> /\ CurrentMove.flag.tag = "EnPassant") =>
          ~do_move_panics(board, CurrentMove)
    /\ (pc = "ret" /\ stack # << >> /\ CurrentMove.flag.tag = "EnPassant") =>
          ~undo_move_panics(board, CurrentMove)
    /\ (JustMade /\ CurrentMove.flag.tag = "EnPassant") =>
          /\ get_piece_set(board, Pawn, board.turn)
                = get_piece_set(before, Pawn, board.turn) \ {CurrentMove.flag.arg}
          /\ Cardinality(get_piece_set(board, Pawn, board.turn))
                = Cardinality(get_piece_set(before, Pawn, board.turn)) - 1
          /\ all_pieces(board, board.turn) = all_pieces(before, board.turn) \ {CurrentMove.flag.arg}
          /\ board.squares[CurrentMove.flag.arg] = None

(* an en-passant capture has been made and undone *)
C37_Witness ==
    /\ pc = "loop"
    /\ Len(stack) = 1
    /\ Top.nodes > 0
    /\ \E ep \in entry.en_passant :
          /\ board.squares[Behind(ep, entry.turn)] = <<opponent(entry.turn), Pawn>>
          /\ \E s \in get_piece_set(entry, Pawn, entry.turn) :
                /\ Move(s, ep, FlagEnPassant(Behind(ep, entry.turn))) \notin {Top.moves[i] : i \in DOMAIN Top.moves}
                /\ \E i \in DOMAIN generate_moves(prepare(entry), entry.turn) :
                      generate_moves(prepare(entry), entry.turn)[i]
                          = Move(s, ep, FlagEnPassant(Behind(ep, entry.turn)))

(* a line that try_parse makes Quit of has been read from stdin *)
QuitRead ==
    \E i \in DOMAIN stdin : try_parse(stdin[i]).cmd = {[tag |-> "Quit"]}

(* C38: after a `quit` line has been read from stdin, the engine thread eventually
   leaves its control loop and terminates, the event loop of start_uci eventually
   ends, and start_uci returns *)
C38_QuitTerminates ==
    QuitRead ~> (threads.engine \in {"done", "panic"} /\ threads.main = "returned")

(* whether a Position command was handled with Ok before the i-th command handled *)
PositionSucceededBefore(i) ==
    \E j \in 1..(i - 1) : handled[j].cmd.tag = "Position" /\ handled[j].result = "Ok"

(* the events the i-th command handled has sent *)
EventsOf(i) == SubSeq(evt, handled[i].from + 1, handled[i].to)

(* C39: a Perft command handled before any Position command has succeeded emits a
   Debug event "position not set", no PerftResult event, and leaves the board
   unchanged; once a Position command has succeeded, every Perft command emits
   exactly one PerftResult event, in the order the commands were received *)
C39_PerftNeedsPosition ==
    /\ \A i \in DOMAIN handled :
          handled[i].cmd.tag = "Perft" =>
             IF PositionSucceededBefore(i)
             THEN /\ Len(EventsOf(i)) = 1
                  /\ EventsOf(i)[1].tag = "PerftResult"
                  /\ EventsOf(i)[1].depth = handled[i].cmd.ply
             ELSE /\ EventsOf(i) = <<[tag |-> "Debug", msg |-> "position not set"]>>
                  /\ handled[i].unchanged
    /\ LET is_result(e) == e.tag = "PerftResult"
           after(h) == h.cmd.tag = "Perft" /\ h.set
           results_sent == SelectSeq(evt, is_result)
           perfts == SelectSeq(handled, after)
       IN  (\A i \in DOMAIN handled : after(handled[i]) => PositionSucceededBefore(i))
              => /\ Len(results_sent) = Len(perfts)
                 /\ \A k \in DOMAIN perfts : results_sent[k].depth = perfts[k].cmd.ply

====
